---- MODULE Spec2Model ----
(***************************************************************************)
(* Verification model of the HAPOD orchestration of dune-gdt-demos:        *)
(*   - the chunk-count helpers and the chunked time loop                   *)
(*     (hapod/cellmodel/wrapper.py, boltzmann/wrapper.py,                  *)
(*      cellmodel_solve_with_deim.py)          -> specification SpecLoop   *)
(*   - binary_tree_hapod over a process topology                           *)
(*     (hapod/cellmodel/wrapper.py)            -> specification SpecHapod  *)
(*                                                                         *)
(*   - the time stepping of CellModel, the state caches of the operators  *)
(*     and of the Boltzmann solver, the parameter scattering               *)
(*     (hapod/cellmodel/wrapper.py, boltzmann/wrapper.py)                  *)
(*       -> specifications SpecCellModel, SpecOperators, SpecRhs,          *)
(*          SpecScatter                                                    *)
(*                                                                         *)
(* Times are integers counted in ticks of 0.01: t_end = a * 0.01 and       *)
(* dt = b * 0.01.  The float accumulation t += actual_dt stays within      *)
(* 1e-14 of the double of the tick for the step counts of this model, so   *)
(* the comparison  t > t_end - 1e-14  is  t >= t_end  on ticks; where the  *)
(* accumulated double differs from the double of the tick, the difference  *)
(* is kept as a sign (off: -1 below, 0 equal, 1 above).                    *)
(***************************************************************************)
EXTENDS Integers, Sequences, FiniteSets, TLC

(* ------------------------------ bounds --------------------------------- *)
MaxTEnd == 10
MaxDt == 2
MaxChunkSize == 4
NumMus == 2
MaxNewton == 2
MaxNodes == 2
MaxTreeNodes == 3
SizeProc == 2
MaxChunks == 2
MaxVecs == 7
MaxModes == 2
MaxCalls == 13
MaxFixedOps == 3
NumMuValues == 2
MaxJacs == 1
NumRhsMus == 4
MaxCommSize == 8

None == "None"

Min(a, b) == IF a <= b THEN a ELSE b
Max(a, b) == IF a >= b THEN a ELSE b

(* ceil(a / b) of exact integers, b > 0 *)
CeilDiv(a, b) == (a + b - 1) \div b

(* Pairs (a, b) for which the IEEE-754 double quotient (a*0.01)/(b*0.01)   *)
(* is larger than the exact integer quotient a/b, so that math.ceil of it  *)
(* is one more than the exact value (e.g. 0.07/0.01 = 7.000000000000001).  *)
(* Complete for 0 <= a <= 30, 1 <= b <= 7; the quotient is never too small *)
(* in that range.                                                          *)
FloatQuotientAbove ==
  { <<7, 1>>, <<14, 1>>, <<14, 2>>, <<27, 3>>, <<28, 1>>, <<28, 2>>, <<28, 4>> }

(* math.ceil(t_end / dt) as Python evaluates it on doubles *)
math_ceil_div(a, b) ==
  CeilDiv(a, b) + (IF <<a, b>> \in FloatQuotientAbove THEN 1 ELSE 0)

(* ---------------------- chunk-count helpers ---------------------------- *)
(* Result of a helper call: ok = FALSE stands for the raised exception     *)
(* (ZeroDivisionError or AssertionError).                                  *)
Raised == [ok |-> FALSE, num_chunks |-> 0, num_time_steps |-> 0]

ChunkCountNoPlusOne(te, d, cs) ==
  IF d = 0 \/ cs = 0 THEN Raised
  ELSE LET nts == math_ceil_div(te, d)
           nc  == CeilDiv(nts, cs)
           lcs == nts - cs * (nc - 1)
       IN IF nc >= 2 /\ 1 <= lcs /\ lcs <= cs
          THEN [ok |-> TRUE, num_chunks |-> nc, num_time_steps |-> nts]
          ELSE Raised

get_num_chunks_and_num_timesteps(te, d, cs) ==
  IF d = 0 \/ cs = 0 THEN Raised
  ELSE LET nts == math_ceil_div(te, d) + 1
           nc  == CeilDiv(nts, cs)
           lcs == nts - cs * (nc - 1)
       IN IF nc >= 2 /\ 1 <= lcs /\ lcs <= cs
          THEN [ok |-> TRUE, num_chunks |-> nc, num_time_steps |-> nts]
          ELSE Raised

ChunkCountNoAssert(te, d, cs) ==
  IF d = 0 \/ cs = 0 THEN Raised
  ELSE LET nts == math_ceil_div(te, d) + 1
           nc  == CeilDiv(nts, cs)
       IN [ok |-> TRUE, num_chunks |-> nc, num_time_steps |-> nts]

solver_statistics(te, d, cs) ==
  IF d = 0 \/ cs = 0 THEN Raised
  ELSE LET nts == math_ceil_div(te, d) + 1
           nc  == CeilDiv(nts, cs)
           lcs == nts - cs * (nc - 1)
       IN IF nc >= 2 /\ 1 <= lcs /\ lcs <= cs
          THEN [ok |-> TRUE, num_chunks |-> nc, num_time_steps |-> nts]
          ELSE Raised

(* Ticks n and steps b for which the double obtained by adding b*0.01      *)
(* n/b times to 0.0 is smaller (larger) than the double n*0.01.  Complete  *)
(* for 0 <= n <= 30, 1 <= b <= 7.                                          *)
FloatSumBelow ==
  { <<10, 1>>, <<11, 1>>, <<12, 1>>, <<13, 1>>, <<14, 1>>,
    <<20, 2>>, <<22, 2>>, <<24, 2>>, <<26, 2>>, <<28, 2>> }

FloatSumAbove ==
  { <<6, 1>>, <<12, 2>>, <<15, 5>>, <<18, 1>>, <<19, 1>>, <<20, 1>>, <<21, 1>>,
    <<21, 7>>, <<22, 1>>, <<23, 1>>, <<24, 1>>, <<24, 4>>, <<25, 1>>, <<26, 1>>,
    <<27, 1>>, <<28, 1>>, <<29, 1>>, <<30, 1>>, <<30, 3>> }

float_sum_off(n, b) ==
  IF <<n, b>> \in FloatSumBelow THEN -1
  ELSE IF <<n, b>> \in FloatSumAbove THEN 1 ELSE 0

(* t + min(dt, t_end - t) on doubles, for a time t < t_end that was        *)
(* reached from 0.0 in steps of dt: a full step dt while that does not     *)
(* pass t_end (the sum may be rounded below t_end), else the step          *)
(* t_end - t, whose sum with t is the double t_end.                        *)
time_plus_dt_always(t, te, d) == [t |-> t + d, off |-> float_sum_off(t + d, d)]

time_plus_actual_dt(t, te, d) ==
  IF t + d < te THEN [t |-> t + d, off |-> float_sum_off(t + d, d)]
  ELSE IF t + d = te THEN [t |-> te, off |-> Min(float_sum_off(te, d), 0)]
  ELSE [t |-> te, off |-> 0]

(* CellModel.next_time_step: no step once t has reached t_end, otherwise   *)
(* a step of min(dt, t_end - t).                                           *)
next_time_step(t, te, d) ==
  IF t >= te THEN [U |-> None, t |-> te, off |-> 0]
  ELSE [U |-> "U", t |-> time_plus_actual_dt(t, te, d).t,
        off |-> time_plus_actual_dt(t, te, d).off]

(* ------------------------------ state ---------------------------------- *)
VARIABLES
  t_end, dt, chunk_size, include_newton_stages,   \* inputs of the script
  newton_iters,                                   \* Newton iterations per time step (stages, residuals)
  lpc,                                            \* position in the script
  helper,                                         \* which helper was called
  num_chunks, num_time_steps,                     \* returned by the helper
  chunk_index, p, time_index, time, old_time,     \* loop variables
  current_values,                                 \* per parameter: "U" or None
  new_vecs,                                       \* slot -> parameter -> number of vectors
  chunk_sizes                                     \* per finished chunk: new_vecs at the POD call

loopVars == << t_end, dt, chunk_size, include_newton_stages, newton_iters, lpc,
               helper,
               num_chunks, num_time_steps, chunk_index, p, time_index, time,
               old_time, current_values, new_vecs, chunk_sizes >>

VARIABLES
  gen_num_chunks,        \* chunk_generator.num_chunks
  num_nodes,             \* number of processor groups (size of every comm_rank_group)
  incremental_gramian,   \* argument of binary_tree_hapod
  index_order,           \* argument indices: the slots in the order of the loops
  tree_calls,            \* per process and slot: calls of final_hapod_in_binary_tree_hapod
  pc,                    \* per process: position in binary_tree_hapod
  kpos,                  \* per process: position of the slot loop in indices
  gen,                   \* per process: number of chunks its chunk_generator has yielded
  tree_depth,            \* per process: local variable tree_depth
  vecs,                  \* per process: local variable vecs of the processor POD
  results,               \* per process and slot: BinaryTreeHapodResults
  sync_count,            \* per process and slot: idle_wait calls entered
  bcast_val,             \* per node: value broadcast on comm_proc
  gather_box,            \* per node, slot, sending rank: contributions in flight
  tree_box,              \* per node and slot: modes sent up the cross-node tree
  tree_level,            \* per process: level of the cross-node tree reduction
  stats_box,             \* values sent to world rank 0 by the final gathers
  node_pod_log,          \* per process and slot: the node-level PODs performed
  tree_pod_log           \* per process and slot: the PODs of the cross-node tree

hapodVars == << gen_num_chunks, num_nodes, incremental_gramian, index_order,
                tree_calls, pc,
                kpos, gen, tree_depth, vecs, results, sync_count, bcast_val,
                gather_box, tree_box, tree_level, stats_box, node_pod_log,
                tree_pod_log >>

VARIABLES
  cellmodel,             \* a CellModel stepped by next_time_step and by _compute_solution
  opstate,               \* the operators of one CellModelSolver and the solver's caches
  boltz,                 \* a Boltzmann Solver and its RHS operator and time stepper
  scatter                \* create_and_scatter_cellmodel_parameters on a communicator

auxVars == << cellmodel, opstate, boltz, scatter >>

vars == << loopVars, hapodVars, auxVars >>

(* the values of the components that are not running *)
CellModelIdle == [pc |-> "off"]
OperatorsIdle == [pc |-> "off"]
RhsIdle == [pc |-> "off"]
ScatterIdle == [pc |-> "off"]

Mus == 0 .. (NumMus - 1)
(* slot 0 is a POD index (k < 3), slot 3 a DEIM index *)
pod_indices == {0}
indices == {0, 3}
EmptyVecs == [k \in indices |-> [q \in Mus |-> 0]]

(* get_num_chunks_and_num_timesteps(t_end, dt, chunk_size) called on its own *)
CallGetNumChunks ==
  /\ lpc = "start"
  /\ LET r == get_num_chunks_and_num_timesteps(t_end, dt, chunk_size)
     IN /\ helper' = "get_num_chunks_and_num_timesteps"
        /\ num_chunks' = r.num_chunks
        /\ num_time_steps' = r.num_time_steps
        /\ lpc' = IF r.ok THEN "returned" ELSE "error"
  /\ UNCHANGED << t_end, dt, chunk_size, include_newton_stages, newton_iters, chunk_index, p,
                  time_index, time, old_time, current_values, new_vecs,
                  chunk_sizes >>

(* binary_tree_hapod of the script up to the start of the chunk loop *)
CallSolverStatistics ==
  /\ lpc = "start"
  /\ LET r == solver_statistics(t_end, dt, chunk_size)
     IN /\ helper' = "solver_statistics"
        /\ num_chunks' = r.num_chunks
        /\ num_time_steps' = r.num_time_steps
        /\ lpc' = IF r.ok THEN "chunk_begin" ELSE "error"
  /\ UNCHANGED << t_end, dt, chunk_size, include_newton_stages, newton_iters, chunk_index, p,
                  time_index, time, old_time, current_values, new_vecs,
                  chunk_sizes >>

(* for chunk_index in range(num_chunks): new_vecs = [...empty()...] *)
BeginChunk ==
  /\ lpc = "chunk_begin"
  /\ new_vecs' = EmptyVecs
  /\ p' = 0
  /\ lpc' = "param_begin"
  /\ UNCHANGED << t_end, dt, chunk_size, include_newton_stages, newton_iters, helper,
                  num_chunks, num_time_steps, chunk_index, time_index, time,
                  old_time, current_values, chunk_sizes >>

(* number of time steps of the inner loop of a chunk *)
StepsInChunk(ci, cs) == IF ci = 0 THEN cs - 1 ELSE cs

(* for p in range(len(mus)): time = old_time; initial values in chunk 0 *)
BeginParam ==
  /\ lpc = "param_begin"
  /\ time' = old_time
  /\ new_vecs' = IF chunk_index = 0
                 THEN [k \in indices |->
                        IF k \in pod_indices
                        THEN [new_vecs[k] EXCEPT ![p] = @ + 1]
                        ELSE new_vecs[k]]
                 ELSE new_vecs
  /\ time_index' = 0
  /\ lpc' = "step"
  /\ UNCHANGED << t_end, dt, chunk_size, include_newton_stages, newton_iters, helper,
                  num_chunks, num_time_steps, chunk_index, p, old_time,
                  current_values, chunk_sizes >>

(* one iteration of  for time_index in range(...)  *)
TimeStep ==
  /\ lpc = "step"
  /\ time_index < StepsInChunk(chunk_index, chunk_size)
  /\ LET r == next_time_step(time, t_end, dt)
     IN /\ time' = r.t
        /\ current_values' = [current_values EXCEPT ![p] = r.U]
        /\ IF r.U = None
           THEN /\ lpc' = IF chunk_index = num_chunks - 1 /\ time_index # 0
                          THEN "param_end" ELSE "assert_failed"
                /\ UNCHANGED << new_vecs, time_index >>
           ELSE /\ new_vecs' = [k \in indices |->
                     [new_vecs[k] EXCEPT ![p] =
                        IF k < 3
                        THEN @ + 1 + (IF include_newton_stages THEN newton_iters ELSE 0)
                        ELSE @ + newton_iters]]
                /\ time_index' = time_index + 1
                /\ lpc' = "step"
  /\ UNCHANGED << t_end, dt, chunk_size, include_newton_stages, newton_iters, helper,
                  num_chunks, num_time_steps, chunk_index, p, old_time,
                  chunk_sizes >>

(* the inner loop ran to the end of its range *)
EndSteps ==
  /\ lpc = "step"
  /\ time_index >= StepsInChunk(chunk_index, chunk_size)
  /\ lpc' = "param_end"
  /\ UNCHANGED << t_end, dt, chunk_size, include_newton_stages, newton_iters, helper,
                  num_chunks, num_time_steps, chunk_index, p, time_index, time,
                  old_time, current_values, new_vecs, chunk_sizes >>

(* next parameter, or  old_time = time  after the last one *)
EndParam ==
  /\ lpc = "param_end"
  /\ IF p + 1 < NumMus
     THEN /\ p' = p + 1
          /\ lpc' = "param_begin"
          /\ UNCHANGED old_time
     ELSE /\ old_time' = time
          /\ lpc' = "pods"
          /\ UNCHANGED p
  /\ UNCHANGED << t_end, dt, chunk_size, include_newton_stages, newton_iters, helper,
                  num_chunks, num_time_steps, chunk_index, time_index, time,
                  current_values, new_vecs, chunk_sizes >>

(* the PODs of the chunk are computed from new_vecs; next chunk *)
ChunkPods ==
  /\ lpc = "pods"
  /\ chunk_sizes' = Append(chunk_sizes, new_vecs)
  /\ chunk_index' = chunk_index + 1
  /\ lpc' = IF chunk_index + 1 < num_chunks THEN "chunk_begin" ELSE "done"
  /\ UNCHANGED << t_end, dt, chunk_size, include_newton_stages, newton_iters, helper,
                  num_chunks, num_time_steps, p, time_index, time, old_time,
                  current_values, new_vecs >>

(* ===================== binary_tree_hapod ================================ *)
(* Process topology (MPIWrapper): num_nodes processor groups of SizeProc   *)
(* processes; a process is <<node, rank_proc>>.                            *)
Nodes == 0 .. (Max(MaxNodes, MaxTreeNodes) - 1)
Ranks == 0 .. (SizeProc - 1)
Procs == Nodes \X Ranks
node_of(q) == q[1]
rank_proc(q) == q[2]
rank_world(q) == q[1] * SizeProc + q[2]
Active(q) == q[1] < num_nodes
Group(q) == { r \in Procs : r[1] = q[1] }

(* the slots in the order of  for k in indices *)
IndexOrders == { << 0, 3 >>, << 3, 0 >> }
IndexSeq == index_order
SlotFirst(q, pos) == IndexSeq[1]

SlotByRank(q, pos) ==
  IndexSeq[IF rank_proc(q) = 0 THEN pos ELSE Len(IndexSeq) + 1 - pos]

(* the slot k of iteration number pos of a loop  for k in indices *)
Slot(q, pos) == IndexSeq[pos]

(* root_rank = k % mpi.size_proc *)
root_rank_zero(k) == 0

root_rank(k) == k % SizeProc

RECURSIVE CeilLog2(_)
CeilLog2(n) == IF n <= 1 THEN 0 ELSE 1 + CeilLog2((n + 1) \div 2)

(* hapod.hapod.binary_tree_depth: depth of the binary tree over the group  *)
(* roots, ceil(log2(number of roots))                                      *)
binary_tree_depth(n) == CeilLog2(n)

(* tree_depth = chunk_generator.num_chunks + node_binary_tree_depth *)
tree_depth_chunks_only(nc, node_depth) == nc

tree_depth_of(nc, node_depth) == nc + node_depth

(* hapod.hapod.HapodParameters: tree_depth must be at least 2 *)
HapodParametersOk(td) == td >= 2

(* r.max_vectors_before_pod = max(r.max_vectors_before_pod, ...) and       *)
(* r.max_local_modes = max(r.max_local_modes, ...)                         *)
running_max_overwrite(old, new) == new

running_max(old, new) == Max(old, new)

(* A vector array: none = the Python value None, n = len, lvl = largest    *)
(* number of local PODs a snapshot in it has passed through, snaps =       *)
(* number of snapshots it stems from, chunk = newest chunk it contains.    *)
NoArray == [none |-> TRUE, n |-> 0, lvl |-> 0, scaled |-> FALSE, snaps |-> 0,
            chunk |-> 0]

(* BinaryTreeHapodResults.__init__ *)
(* stats tells what the four statistics fields hold: the values of the    *)
(* process ("local"), the maxima over all processes ("max"), or the list   *)
(* [0] that replaces a gather result of None ("placeholder")               *)
NewResult == [modes |-> NoArray, gathered_modes |-> NoArray, num_snaps |-> 0,
              num_modes |-> 0, total_num_snapshots |-> 0,
              max_vectors_before_pod |-> 0, max_local_modes |-> 0,
              stats |-> "local"]

(* hapod.hapod.local_pod: a basis of at most MaxModes modes of the inputs  *)
local_pod(n_in, lvl_in, snaps_in, chunk_in) ==
  [none |-> FALSE, n |-> Min(n_in, MaxModes), lvl |-> lvl_in + 1,
   scaled |-> FALSE, snaps |-> snaps_in, chunk |-> chunk_in]

(* len(chunk[k]) on process q: the chunks of the processes differ in size, *)
(* and the largest can exceed the number of vectors a root merges          *)
ChunkLen(q) == 1 + ((2 * rank_world(q)) % MaxVecs)

(* chunk_generator.chunk_index() and chunk_generator.done() after g chunks *)
(* have been yielded                                                       *)
gen_chunk_index(g) == g - 1
gen_done(g, nc) == g >= nc

RECURSIVE Pow2(_)
Pow2(l) == IF l = 0 THEN 1 ELSE 2 * Pow2(l - 1)

(* hapod.hapod.binary_tree_hapod_over_ranks on the communicator of the     *)
(* group roots of a slot (rank i = node i): at level l the ranks that are  *)
(* multiples of 2^l are active, the odd ones among them send their modes   *)
(* to the rank 2^l below, which merges them.                               *)
TreeDone(l) == Pow2(l) >= num_nodes
IsSender(i, l) == i % Pow2(l + 1) = Pow2(l)
HasPartner(i, l) == i % Pow2(l + 1) = 0 /\ i + Pow2(l) < num_nodes

(* the first level from l on at which rank i sends or receives *)
RECURSIVE NextLevel(_, _)
NextLevel(i, l) ==
  IF TreeDone(l) \/ IsSender(i, l) \/ HasPartner(i, l) THEN l
  ELSE NextLevel(i, l + 1)

HapodInit ==
  /\ gen_num_chunks \in 1 .. MaxChunks
  /\ num_nodes \in 1 .. MaxNodes
  /\ incremental_gramian \in BOOLEAN
  /\ index_order \in IndexOrders
  /\ tree_calls = [q \in Procs |-> [k \in indices |-> 0]]
  /\ pc = [q \in Procs |-> IF q[1] < num_nodes THEN "depth" ELSE "absent"]
  /\ kpos = [q \in Procs |-> 1]
  /\ gen = [q \in Procs |-> 0]
  /\ tree_depth = [q \in Procs |-> 0]
  /\ vecs = [q \in Procs |-> NoArray]
  /\ results = [q \in Procs |-> [k \in indices |-> NewResult]]
  /\ sync_count = [q \in Procs |-> [k \in indices |-> 0]]
  /\ bcast_val = [n \in Nodes |-> -1]
  /\ gather_box = [n \in Nodes |-> [k \in indices |-> [r \in Ranks |-> << >>]]]
  /\ tree_box = [n \in Nodes |-> [k \in indices |-> {}]]
  /\ tree_level = [q \in Procs |-> NextLevel(q[1], 0)]
  /\ stats_box = {}
  /\ node_pod_log = [q \in Procs |-> [k \in indices |-> << >>]]
  /\ tree_pod_log = [q \in Procs |-> [k \in indices |-> << >>]]
  (* the time loop is not running *)
  /\ t_end = 0 /\ dt = 0 /\ chunk_size = 0
  /\ include_newton_stages = FALSE
  /\ newton_iters = 1
  /\ lpc = "off"
  /\ helper = None
  /\ num_chunks = 0 /\ num_time_steps = 0
  /\ chunk_index = 0 /\ p = 0 /\ time_index = 0 /\ time = 0 /\ old_time = 0
  /\ current_values = [q \in Mus |-> "U"]
  /\ new_vecs = EmptyVecs
  /\ chunk_sizes = << >>
  /\ cellmodel = CellModelIdle
  /\ opstate = OperatorsIdle
  /\ boltz = RhsIdle
  /\ scatter = ScatterIdle

(* the element of a set of one element *)
Only(S) == CHOOSE x \in S : TRUE

(* The part of the state that process q alone reads and writes: its       *)
(* position, its loop counters and its local variables.                    *)
Loc(q) ==
  [pc |-> pc[q], kpos |-> kpos[q], gen |-> gen[q], td |-> tree_depth[q],
   vecs |-> vecs[q], res |-> results[q], log |-> node_pod_log[q],
   sync |-> sync_count[q], calls |-> tree_calls[q]]

SetLoc(q, L) ==
  /\ pc' = [pc EXCEPT ![q] = L.pc]
  /\ kpos' = [kpos EXCEPT ![q] = L.kpos]
  /\ gen' = [gen EXCEPT ![q] = L.gen]
  /\ tree_depth' = [tree_depth EXCEPT ![q] = L.td]
  /\ vecs' = [vecs EXCEPT ![q] = L.vecs]
  /\ results' = [results EXCEPT ![q] = L.res]
  /\ node_pod_log' = [node_pod_log EXCEPT ![q] = L.log]
  /\ sync_count' = [sync_count EXCEPT ![q] = L.sync]
  /\ tree_calls' = [tree_calls EXCEPT ![q] = L.calls]

(* if mpi.rank_proc == root_rank: final_hapod_in_binary_tree_hapod(...)    *)
EntersTreeAlways(q, k) == TRUE

EntersTree(q, k) == rank_proc(q) = root_rank(k)

(* the first iteration of the last  for k in indices  loop, or a later     *)
(* one, begins with slot k: on the slot's root the tree reduction is       *)
(* called                                                                  *)
CallFinalHapod(q, k, calls) ==
  IF EntersTree(q, k) THEN [calls EXCEPT ![k] = @ + 1] ELSE calls

(* for chunk in chunk_generator: the next chunk is taken from the          *)
(* generator, or the loop ends when the generator is exhausted             *)
FetchChunk(q, L, at) ==
  IF at # "next_chunk"
  THEN [L EXCEPT !.pc = at]
  ELSE IF L.gen < gen_num_chunks
       THEN [L EXCEPT !.gen = @ + 1, !.pc = "pod"]
       ELSE [L EXCEPT !.pc = "final",
                      !.calls = CallFinalHapod(q, IndexSeq[1], @)]

(* position after the broadcast: the results are created before the loop *)
AfterBcastNoCheck(td) == "next_chunk"

AfterBcast(td) == IF HapodParametersOk(td) THEN "next_chunk" ELSE "config_error"

(* results = [BinaryTreeHapodResults(tree_depth, tol, omega) for ...],     *)
(* then the chunk loop is entered                                          *)
CreateResults(q, L) ==
  FetchChunk(q, [L EXCEPT !.res = [k \in indices |-> NewResult]], AfterBcast(L.td))

(* position after vecs.scal(svals): the call of idle_wait *)
AfterScalNoWait == "gather"

AfterScal == "sync_wait"

(* pods_on_processor_cores_in_binary_tree_hapod up to the call of          *)
(* idle_wait: the local POD of the chunk, the rescaling by the singular    *)
(* values, and the arrival at the synchronization of the group.            *)
ProcessorPod(q, L) ==
  LET k == Slot(q, L.kpos)
      snaps_on_rank == ChunkLen(q)
      v == local_pod(snaps_on_rank, 0, snaps_on_rank, gen_chunk_index(L.gen))
  IN [L EXCEPT !.vecs = [v EXCEPT !.scaled = TRUE],
               !.res[k].max_vectors_before_pod = running_max(@, snaps_on_rank),
               !.res[k].max_local_modes = running_max(@, v.n),
               !.sync[k] = IF AfterScal = "sync_wait" THEN @ + 1 ELSE @,
               !.pc = AfterScal]

(* idle_wait(mpi.comm_proc, root) returns once every process of the group  *)
(* has reached it; a process at "gather" has not called it                 *)
idle_wait(q) ==
  pc[q] = "sync_wait" =>
    \A r \in Group(q) :
      sync_count[r][Slot(q, kpos[q])] >= sync_count[q][Slot(q, kpos[q])]

(* position after the loop over the processor PODs of a chunk *)
AfterProcessorPodsLast(done) == IF done THEN "node" ELSE "next_chunk"

AfterProcessorPods(done) == "node"

(* end of one iteration of the first  for k in indices  loop *)
NextPodSlot(q, L) ==
  IF L.kpos < Len(IndexSeq)
  THEN [L EXCEPT !.kpos = @ + 1, !.pc = "pod"]
  ELSE FetchChunk(q, [L EXCEPT !.kpos = 1],
                  AfterProcessorPods(gen_done(L.gen, gen_num_chunks)))

RECURSIVE SumOver(_, _)
SumOver(f, S) ==
  IF S = {} THEN 0
  ELSE LET x == CHOOSE y \in S : TRUE IN f[x] + SumOver(f, S \ {x})

RECURSIVE MaxOver(_, _)
MaxOver(f, S) ==
  IF S = {} THEN 0
  ELSE LET x == CHOOSE y \in S : TRUE IN Max(f[x], MaxOver(f, S \ {x}))

(* The two branches of pod_on_node_in_binary_tree_hapod: the new result    *)
(* and a record of the local_pod call (its inputs, flags and tolerance).   *)
node_pod(r, first_branch, root_of_tree, inc) ==
  LET g == r.gathered_modes
  IN IF first_branch
     THEN LET m == local_pod(g.n, g.lvl, r.num_snaps, g.chunk)
          IN [r |-> [r EXCEPT !.total_num_snapshots = @ + r.num_snaps,
                              !.max_vectors_before_pod = running_max(@, g.n),
                              !.modes = m,
                              !.max_local_modes = running_max(@, m.n)],
              call |-> [chunk |-> g.chunk, branch |-> "first",
                        prior |-> FALSE, prior_chunk |-> -1,
                        incremental |-> FALSE,
                        root_of_tree |-> FALSE, tol |-> "orth_tol",
                        n_prior |-> 0, n_gathered |-> g.n, n_out |-> m.n,
                        num_snaps |-> r.num_snaps,
                        total |-> r.total_num_snapshots + r.num_snaps]]
     ELSE LET m == local_pod(r.modes.n + g.n, Max(r.modes.lvl, g.lvl),
                             r.total_num_snapshots + r.num_snaps, g.chunk)
          IN [r |-> [r EXCEPT !.total_num_snapshots = @ + r.num_snaps,
                              !.max_vectors_before_pod = running_max(@, r.modes.n + g.n),
                              !.modes = m,
                              !.max_local_modes = running_max(@, m.n)],
              call |-> [chunk |-> g.chunk, branch |-> "merge",
                        prior |-> ~r.modes.none,
                        prior_chunk |-> IF r.modes.none THEN -1 ELSE r.modes.chunk,
                        incremental |-> inc,
                        root_of_tree |-> root_of_tree,
                        tol |-> IF root_of_tree THEN "final_orth_tol" ELSE "orth_tol",
                        n_prior |-> r.modes.n, n_gathered |-> g.n, n_out |-> m.n,
                        num_snaps |-> r.num_snaps,
                        total |-> r.total_num_snapshots + r.num_snaps]]

pod_on_node_always_merge(r, is_first_chunk, is_last_chunk, size_rank_group, inc) ==
  node_pod(r, FALSE, is_last_chunk /\ size_rank_group = 1, inc)

pod_on_node_last_is_root(r, is_first_chunk, is_last_chunk, size_rank_group, inc) ==
  node_pod(r, is_first_chunk, is_last_chunk, inc)

pod_on_node_total_is_last(r, is_first_chunk, is_last_chunk, size_rank_group, inc) ==
  LET o == node_pod(r, is_first_chunk, is_last_chunk /\ size_rank_group = 1, inc)
  IN [o EXCEPT !.r.total_num_snapshots = r.num_snaps, !.call.total = r.num_snaps]

(* pod_on_node_in_binary_tree_hapod(r, is_first_chunk, is_last_chunk, ...) *)
pod_on_node(r, is_first_chunk, is_last_chunk, size_rank_group, inc) ==
  node_pod(r, is_first_chunk, is_last_chunk /\ size_rank_group = 1, inc)

(* results and log of process q after the iterations i, i+1, ... of the    *)
(* second  for k in indices  loop of a chunk; g chunks have been yielded   *)
RECURSIVE NodePodsFrom(_, _, _, _, _)
NodePodsFrom(q, i, res, log, g) ==
  IF i > Len(IndexSeq) THEN [res |-> res, log |-> log]
  ELSE LET k == IndexSeq[i]
       IN IF rank_proc(q) = root_rank(k)
          THEN Only({ NodePodsFrom(q, i + 1, [res EXCEPT ![k] = out.r],
                                   [log EXCEPT ![k] = Append(@, out.call)], g) :
                      out \in {pod_on_node(res[k],
                                           gen_chunk_index(g) = 0,
                                           gen_done(g, gen_num_chunks),
                                           num_nodes, incremental_gramian)} })
          ELSE NodePodsFrom(q, i + 1, res, log, g)

(* the second  for k in indices  loop of a chunk (the PODs on the group    *)
(* roots), then the next chunk                                             *)
NodePods(q, L) ==
  Only({ FetchChunk(q, [L EXCEPT !.res = out.res, !.log = out.log], "next_chunk") :
         out \in {NodePodsFrom(q, 1, L.res, L.log, L.gen)} })

(* A process runs on from position L.pc through everything it computes on  *)
(* its own data, up to the next call that waits for another process: the   *)
(* synchronization of its group, a gather, the tree reduction or the world *)
(* gathers.                                                                *)
RECURSIVE RunLocal(_, _)
RunLocal(q, L) ==
  CASE L.pc = "create" -> Only({ RunLocal(q, M) : M \in {CreateResults(q, L)} })
    [] L.pc = "pod" -> Only({ RunLocal(q, M) : M \in {ProcessorPod(q, L)} })
    [] L.pc = "node" -> Only({ RunLocal(q, M) : M \in {NodePods(q, L)} })
    [] OTHER -> L

(* node_binary_tree_depth = mpi.comm_proc.bcast(..., root=0) on rank 0,    *)
(* then the process runs on to its first synchronization                   *)
BcastRoot(q) ==
  /\ pc[q] = "depth"
  /\ rank_proc(q) = 0
  /\ bcast_val' = [bcast_val EXCEPT ![node_of(q)] = binary_tree_depth(num_nodes)]
  /\ \E A \in {[Loc(q) EXCEPT
        !.td = tree_depth_of(gen_num_chunks, binary_tree_depth(num_nodes)),
        !.pc = "create"]} : \E L \in {RunLocal(q, A)} : SetLoc(q, L)
  /\ UNCHANGED << gen_num_chunks, num_nodes, incremental_gramian, index_order,
                  gather_box, tree_box, tree_level, tree_pod_log, stats_box >>

(* the same broadcast on the other ranks of the group *)
BcastRecv(q) ==
  /\ pc[q] = "depth"
  /\ rank_proc(q) # 0
  /\ bcast_val[node_of(q)] # -1
  /\ \E A \in {[Loc(q) EXCEPT
        !.td = tree_depth_of(gen_num_chunks, bcast_val[node_of(q)]),
        !.pc = "create"]} : \E L \in {RunLocal(q, A)} : SetLoc(q, L)
  /\ UNCHANGED << gen_num_chunks, num_nodes, incremental_gramian, index_order,
                  bcast_val, gather_box, tree_box, tree_level, tree_pod_log,
                  stats_box >>

(* idle_wait, then comm_proc.gather_on_root_rank on a rank that is not the *)
(* root: its local basis is sent to the root; the process runs on to its   *)
(* next synchronization                                                    *)
GatherSend(q) ==
  /\ pc[q] \in {"sync_wait", "gather"}
  /\ idle_wait(q)
  /\ LET k == Slot(q, kpos[q])
     IN /\ rank_proc(q) # root_rank(k)
        /\ gather_box' = [gather_box EXCEPT ![node_of(q)][k][rank_proc(q)] =
                            Append(@, [vecs |-> vecs[q], to |-> root_rank(k)])]
        /\ \E A \in {[Loc(q) EXCEPT !.res[k].gathered_modes = NoArray,
                                      !.res[k].num_snaps = 0]} :
             \E B \in {NextPodSlot(q, A)} :
               \E L \in {RunLocal(q, B)} : SetLoc(q, L)
  /\ UNCHANGED << gen_num_chunks, num_nodes, incremental_gramian, index_order,
                  bcast_val, tree_box, tree_level, tree_pod_log, stats_box >>

(* idle_wait, then comm_proc.gather_on_root_rank on the root: the          *)
(* concatenation of the local bases of all ranks and the sum of their      *)
(* snapshot counts; the process runs on to its next synchronization        *)
GatherRoot(q) ==
  /\ pc[q] \in {"sync_wait", "gather"}
  /\ idle_wait(q)
  /\ LET k == Slot(q, kpos[q])
         others == Ranks \ {rank_proc(q)}
         box == gather_box[node_of(q)][k]
     IN /\ rank_proc(q) = root_rank(k)
        /\ \A r \in others : box[r] # << >>
        /\ LET part == [r \in Ranks |->
                          IF r = rank_proc(q) THEN vecs[q] ELSE Head(box[r]).vecs]
               gathered == [none |-> FALSE,
                            n |-> SumOver([r \in Ranks |-> part[r].n], Ranks),
                            lvl |-> MaxOver([r \in Ranks |-> part[r].lvl], Ranks),
                            scaled |-> \A r \in Ranks : part[r].scaled,
                            snaps |-> SumOver([r \in Ranks |-> part[r].snaps], Ranks),
                            chunk |-> MaxOver([r \in Ranks |-> part[r].chunk], Ranks)]
           IN \E A \in {[Loc(q) EXCEPT !.res[k].gathered_modes = gathered,
                                        !.res[k].num_snaps = gathered.snaps]} :
                \E B \in {NextPodSlot(q, A)} :
                  \E L \in {RunLocal(q, B)} : SetLoc(q, L)
        /\ gather_box' = [gather_box EXCEPT ![node_of(q)][k] =
                            [r \in Ranks |-> IF r \in others THEN Tail(box[r]) ELSE box[r]]]
  /\ UNCHANGED << gen_num_chunks, num_nodes, incremental_gramian, index_order,
                  bcast_val, tree_box, tree_level, tree_pod_log, stats_box >>

(* ------------------- cross-node tree reduction ------------------------- *)
InTree(q) ==
  /\ pc[q] = "final"
  /\ EntersTree(q, Slot(q, kpos[q]))
  /\ ~TreeDone(tree_level[q])

(* a root whose partner's modes have arrived merges them into its own *)
TreeRecv(q) ==
  /\ InTree(q)
  /\ LET k == Slot(q, kpos[q])
         i == node_of(q)
         l == tree_level[q]
         r == results[q][k]
     IN /\ HasPartner(i, l)
        /\ \E msg \in tree_box[i][k] :
             /\ msg.from = i + Pow2(l)
             /\ LET total == r.total_num_snapshots + msg.total_num_snapshots
                    root_of_tree == TreeDone(l + 1)
                    m == local_pod(r.modes.n + msg.modes.n,
                                   Max(r.modes.lvl, msg.modes.lvl), total,
                                   Max(r.modes.chunk, msg.modes.chunk))
                IN /\ results' = [results EXCEPT
                        ![q][k].modes = m,
                        ![q][k].total_num_snapshots = total,
                        ![q][k].max_vectors_before_pod =
                            running_max(@, r.modes.n + msg.modes.n),
                        ![q][k].max_local_modes = running_max(@, m.n)]
                   /\ tree_pod_log' = [tree_pod_log EXCEPT ![q][k] =
                        Append(@, [level |-> l, root_of_tree |-> root_of_tree,
                                   tol |-> "final_orth_tol",
                                   incremental |-> incremental_gramian,
                                   n_in |-> r.modes.n + msg.modes.n,
                                   n_out |-> m.n])]
             /\ tree_box' = [tree_box EXCEPT ![i][k] = @ \ {msg}]
        /\ tree_level' = [tree_level EXCEPT ![q] = NextLevel(i, l + 1)]
  /\ UNCHANGED << gen_num_chunks, num_nodes, incremental_gramian, index_order, tree_calls, pc, kpos,
                  gen, tree_depth, vecs, sync_count, bcast_val, gather_box,
                  stats_box, node_pod_log >>

(* a root that is the odd one of its pair sends its modes and leaves the   *)
(* reduction without a basis                                               *)
TreeSend(q) ==
  /\ InTree(q)
  /\ LET k == Slot(q, kpos[q])
         i == node_of(q)
         l == tree_level[q]
         r == results[q][k]
     IN /\ IsSender(i, l)
        /\ tree_box' = [tree_box EXCEPT ![i - Pow2(l)][k] =
             @ \cup {[from |-> i, rank |-> rank_proc(q), modes |-> r.modes,
                      total_num_snapshots |-> r.total_num_snapshots]}]
        /\ results' = [results EXCEPT ![q][k].modes = NoArray]
        /\ tree_level' = [tree_level EXCEPT ![q] = CeilLog2(num_nodes)]
  /\ UNCHANGED << gen_num_chunks, num_nodes, incremental_gramian, index_order, tree_calls, pc, kpos,
                  gen, tree_depth, vecs, sync_count, bcast_val, gather_box,
                  stats_box, node_pod_log, tree_pod_log >>

(* ---------------------- final statistics ------------------------------- *)
ActiveProcs == { q \in Procs : Active(q) }

(* end of one iteration of the last  for k in indices  loop; after the     *)
(* last one the process enters comm_world.Barrier()                        *)
NextFinalSlot(q) ==
  IF kpos[q] < Len(IndexSeq)
  THEN /\ kpos' = [kpos EXCEPT ![q] = @ + 1]
       /\ tree_level' = [tree_level EXCEPT ![q] = NextLevel(node_of(q), 0)]
       /\ tree_calls' = [tree_calls EXCEPT ![q] =
                           CallFinalHapod(q, IndexSeq[kpos[q] + 1], @)]
       /\ UNCHANGED pc
  ELSE /\ pc' = [pc EXCEPT ![q] = "barrier"]
       /\ UNCHANGED << kpos, tree_level, tree_calls >>

(* the values a process contributes to the five comm_world.gather calls *)
StatsOfLastGather(q, k) ==
  LET r == results[q][k]
  IN [from |-> rank_world(q), k |-> k,
      max_vectors_before_pod |-> r.max_vectors_before_pod,
      max_local_modes |-> r.max_local_modes,
      num_modes |-> IF r.modes.none THEN 0 ELSE r.modes.n,
      total_num_snapshots |-> r.num_snaps]

StatsOfRootsOnly(q, k) ==
  LET r == results[q][k]
      root == rank_proc(q) = root_rank(k)
  IN [from |-> rank_world(q), k |-> k,
      max_vectors_before_pod |-> IF root THEN r.max_vectors_before_pod ELSE 0,
      max_local_modes |-> IF root THEN r.max_local_modes ELSE 0,
      num_modes |-> IF r.modes.none THEN 0 ELSE r.modes.n,
      total_num_snapshots |-> r.total_num_snapshots]

StatsOf(q, k) ==
  LET r == results[q][k]
  IN [from |-> rank_world(q), k |-> k,
      max_vectors_before_pod |-> r.max_vectors_before_pod,
      max_local_modes |-> r.max_local_modes,
      num_modes |-> IF r.modes.none THEN 0 ELSE r.modes.n,
      total_num_snapshots |-> r.total_num_snapshots]

(* the comm_world.gather calls on a rank other than world rank 0: gather   *)
(* returns None, so the fields become the list [0]                         *)
StatsSend(q) ==
  /\ pc[q] = "final"
  /\ ~InTree(q)
  /\ rank_world(q) # 0
  /\ LET k == Slot(q, kpos[q])
     IN /\ stats_box' = stats_box \cup {StatsOf(q, k)}
        /\ results' = [results EXCEPT
                         ![q][k].max_vectors_before_pod = 0,
                         ![q][k].max_local_modes = 0,
                         ![q][k].num_modes = 0,
                         ![q][k].total_num_snapshots = 0,
                         ![q][k].stats = "placeholder"]
  /\ NextFinalSlot(q)
  /\ UNCHANGED << gen_num_chunks, num_nodes, incremental_gramian, index_order, gen,
                  tree_depth, vecs, sync_count, bcast_val, gather_box,
                  tree_box, node_pod_log, tree_pod_log >>

(* the comm_world.gather calls on world rank 0 and the maxima it takes *)
StatsRoot(q) ==
  /\ pc[q] = "final"
  /\ ~InTree(q)
  /\ rank_world(q) = 0
  /\ LET k == Slot(q, kpos[q])
         got == { m \in stats_box : m.k = k }
         all == got \cup {StatsOf(q, k)}
     IN /\ { m.from : m \in got } = { rank_world(r) : r \in ActiveProcs \ {q} }
        /\ stats_box' = stats_box \ got
        /\ results' = [results EXCEPT
             ![q][k].max_vectors_before_pod =
                 MaxOver([m \in all |-> m.max_vectors_before_pod], all),
             ![q][k].max_local_modes =
                 MaxOver([m \in all |-> m.max_local_modes], all),
             ![q][k].num_modes = MaxOver([m \in all |-> m.num_modes], all),
             ![q][k].total_num_snapshots =
                 MaxOver([m \in all |-> m.total_num_snapshots], all),
             ![q][k].stats = "max"]
  /\ NextFinalSlot(q)
  /\ UNCHANGED << gen_num_chunks, num_nodes, incremental_gramian, index_order, gen,
                  tree_depth, vecs, sync_count, bcast_val, gather_box,
                  tree_box, node_pod_log, tree_pod_log >>

(* mpi.comm_world.Barrier() returns once every process has entered it *)
WorldBarrier(q) ==
  /\ pc[q] = "barrier"
  /\ \A r \in ActiveProcs : pc[r] \in {"barrier", "done"}
  /\ pc' = [pc EXCEPT ![q] = "done"]
  /\ UNCHANGED << gen_num_chunks, num_nodes, incremental_gramian, index_order, tree_calls, kpos, gen,
                  tree_depth, vecs, results, sync_count, bcast_val, gather_box,
                  tree_box, tree_level, stats_box, node_pod_log, tree_pod_log >>

(* ========================= specifications ============================== *)
LoopNext ==
  \/ CallGetNumChunks /\ UNCHANGED << hapodVars, auxVars >>
  \/ CallSolverStatistics /\ UNCHANGED << hapodVars, auxVars >>
  \/ BeginChunk /\ UNCHANGED << hapodVars, auxVars >>
  \/ BeginParam /\ UNCHANGED << hapodVars, auxVars >>
  \/ TimeStep /\ UNCHANGED << hapodVars, auxVars >>
  \/ EndSteps /\ UNCHANGED << hapodVars, auxVars >>
  \/ EndParam /\ UNCHANGED << hapodVars, auxVars >>
  \/ ChunkPods /\ UNCHANGED << hapodVars, auxVars >>

(* the state before the time loop; binary_tree_hapod is not running *)
LoopInit ==
  /\ t_end \in 0 .. MaxTEnd
  /\ dt \in 0 .. MaxDt
  /\ chunk_size \in 0 .. MaxChunkSize
  /\ include_newton_stages \in BOOLEAN
  /\ newton_iters \in 1 .. MaxNewton
  /\ lpc = "start"
  /\ helper = None
  /\ num_chunks = 0
  /\ num_time_steps = 0
  /\ chunk_index = 0
  /\ p = 0
  /\ time_index = 0
  /\ time = 0
  /\ old_time = 0
  /\ current_values = [q \in Mus |-> "U"]
  /\ new_vecs = EmptyVecs
  /\ chunk_sizes = << >>
  (* binary_tree_hapod is not running *)
  /\ gen_num_chunks = 0
  /\ num_nodes = 0
  /\ incremental_gramian = FALSE
  /\ index_order = << 0, 3 >>
  /\ tree_calls = [q \in Procs |-> [k \in indices |-> 0]]
  /\ pc = [q \in Procs |-> "absent"]
  /\ kpos = [q \in Procs |-> 1]
  /\ gen = [q \in Procs |-> 0]
  /\ tree_depth = [q \in Procs |-> 0]
  /\ vecs = [q \in Procs |-> NoArray]
  /\ results = [q \in Procs |-> [k \in indices |-> NewResult]]
  /\ sync_count = [q \in Procs |-> [k \in indices |-> 0]]
  /\ bcast_val = [n \in Nodes |-> -1]
  /\ gather_box = [n \in Nodes |-> [k \in indices |-> [r \in Ranks |-> << >>]]]
  /\ tree_box = [n \in Nodes |-> [k \in indices |-> {}]]
  /\ tree_level = [q \in Procs |-> 0]
  /\ stats_box = {}
  /\ node_pod_log = [q \in Procs |-> [k \in indices |-> << >>]]
  /\ tree_pod_log = [q \in Procs |-> [k \in indices |-> << >>]]

  /\ cellmodel = CellModelIdle
  /\ opstate = OperatorsIdle
  /\ boltz = RhsIdle
  /\ scatter = ScatterIdle
SpecLoop == LoopInit /\ [][LoopNext]_vars

HapodNext ==
  \E q \in Procs :
    \/ BcastRoot(q) /\ UNCHANGED << loopVars, auxVars >>
    \/ BcastRecv(q) /\ UNCHANGED << loopVars, auxVars >>
    \/ GatherSend(q) /\ UNCHANGED << loopVars, auxVars >>
    \/ GatherRoot(q) /\ UNCHANGED << loopVars, auxVars >>
    \/ TreeRecv(q) /\ UNCHANGED << loopVars, auxVars >>
    \/ TreeSend(q) /\ UNCHANGED << loopVars, auxVars >>
    \/ StatsSend(q) /\ UNCHANGED << loopVars, auxVars >>
    \/ StatsRoot(q) /\ UNCHANGED << loopVars, auxVars >>
    \/ WorldBarrier(q) /\ UNCHANGED << loopVars, auxVars >>

SpecHapod == HapodInit /\ [][HapodNext]_vars

(* ------------- the tree reduction and the statistics alone ------------- *)
(* The chunk loop of one process run to its end, slot by slot: what        *)
(* pods_on_processor_cores_in_binary_tree_hapod and                        *)
(* pod_on_node_in_binary_tree_hapod leave in results[k] after c chunks.    *)
LocalVecs(q, c) ==
  [local_pod(ChunkLen(q), 0, ChunkLen(q), c) EXCEPT !.scaled = TRUE]

(* the result of comm_proc.gather_on_root_rank for chunk c in q's group *)
Gathered(q, c) ==
  LET part == [r \in Ranks |-> LocalVecs(<< node_of(q), r >>, c)]
  IN [none |-> FALSE,
      n |-> SumOver([r \in Ranks |-> part[r].n], Ranks),
      lvl |-> MaxOver([r \in Ranks |-> part[r].lvl], Ranks),
      scaled |-> \A r \in Ranks : part[r].scaled,
      snaps |-> SumOver([r \in Ranks |-> part[r].snaps], Ranks),
      chunk |-> c]

RECURSIVE ChunkLoopSlot(_, _, _)
ChunkLoopSlot(q, k, c) ==
  IF c = 0 THEN [r |-> NewResult, log |-> << >>]
  ELSE LET prev == ChunkLoopSlot(q, k, c - 1)
           v == LocalVecs(q, gen_chunk_index(c))
           r1 == [prev.r EXCEPT
                    !.max_vectors_before_pod = running_max(@, ChunkLen(q)),
                    !.max_local_modes = running_max(@, v.n)]
       IN IF rank_proc(q) = root_rank(k)
          THEN LET g == Gathered(q, gen_chunk_index(c))
                   r2 == [r1 EXCEPT !.gathered_modes = g, !.num_snaps = g.snaps]
                   out == pod_on_node(r2, gen_chunk_index(c) = 0,
                                      gen_done(c, gen_num_chunks),
                                      num_nodes, incremental_gramian)
               IN [r |-> out.r, log |-> Append(prev.log, out.call)]
          ELSE [r |-> [r1 EXCEPT !.gathered_modes = NoArray, !.num_snaps = 0],
                log |-> prev.log]

(* every process has left the chunk loop and none has gone further *)
AfterChunkLoop ==
  /\ tree_calls = [q \in Procs |-> [k \in indices |->
        IF Active(q) /\ k = IndexSeq[1] /\ EntersTree(q, k) THEN 1 ELSE 0]]
  /\ pc = [q \in Procs |-> IF Active(q) THEN "final" ELSE "absent"]
  /\ kpos = [q \in Procs |-> 1]
  /\ gen = [q \in Procs |-> IF Active(q) THEN gen_num_chunks ELSE 0]
  /\ tree_depth = [q \in Procs |->
        IF Active(q)
        THEN tree_depth_of(gen_num_chunks, binary_tree_depth(num_nodes)) ELSE 0]
  /\ vecs = [q \in Procs |->
        IF Active(q) THEN LocalVecs(q, gen_chunk_index(gen_num_chunks)) ELSE NoArray]
  /\ results = [q \in Procs |-> [k \in indices |->
        IF Active(q) THEN ChunkLoopSlot(q, k, gen_num_chunks).r ELSE NewResult]]
  /\ sync_count = [q \in Procs |-> [k \in indices |->
        IF Active(q) THEN gen_num_chunks ELSE 0]]
  /\ bcast_val = [n \in Nodes |->
        IF n < num_nodes THEN binary_tree_depth(num_nodes) ELSE -1]
  /\ gather_box = [n \in Nodes |-> [k \in indices |-> [r \in Ranks |-> << >>]]]
  /\ tree_box = [n \in Nodes |-> [k \in indices |-> {}]]
  /\ tree_level = [q \in Procs |-> NextLevel(q[1], 0)]
  /\ stats_box = {}
  /\ node_pod_log = [q \in Procs |-> [k \in indices |->
        IF Active(q) THEN ChunkLoopSlot(q, k, gen_num_chunks).log ELSE << >>]]
  /\ tree_pod_log = [q \in Procs |-> [k \in indices |-> << >>]]

TreeInit ==
  /\ gen_num_chunks \in 1 .. MaxChunks
  /\ num_nodes \in 1 .. MaxTreeNodes
  /\ HapodParametersOk(tree_depth_of(gen_num_chunks, binary_tree_depth(num_nodes)))
  /\ incremental_gramian \in BOOLEAN
  /\ index_order \in IndexOrders
  /\ AfterChunkLoop
  (* the time loop is not running *)
  /\ t_end = 0 /\ dt = 0 /\ chunk_size = 0
  /\ include_newton_stages = FALSE
  /\ newton_iters = 1
  /\ lpc = "off"
  /\ helper = None
  /\ num_chunks = 0 /\ num_time_steps = 0
  /\ chunk_index = 0 /\ p = 0 /\ time_index = 0 /\ time = 0 /\ old_time = 0
  /\ current_values = [q \in Mus |-> "U"]
  /\ new_vecs = EmptyVecs
  /\ chunk_sizes = << >>
  /\ cellmodel = CellModelIdle
  /\ opstate = OperatorsIdle
  /\ boltz = RhsIdle
  /\ scatter = ScatterIdle

TreeNext ==
  \E q \in Procs :
    \/ TreeRecv(q) /\ UNCHANGED << loopVars, auxVars >>
    \/ TreeSend(q) /\ UNCHANGED << loopVars, auxVars >>
    \/ StatsSend(q) /\ UNCHANGED << loopVars, auxVars >>
    \/ StatsRoot(q) /\ UNCHANGED << loopVars, auxVars >>
    \/ WorldBarrier(q) /\ UNCHANGED << loopVars, auxVars >>

SpecTree == TreeInit /\ [][TreeNext]_vars

(* ===================== CellModel time stepping ========================= *)
(* A driver feeds every time returned by next_time_step back into the next *)
(* call, starting from the initial values at t = 0; next to it             *)
(* _compute_solution runs its own loop on the same t_end and dt.           *)
(*   time, current  what the driver holds: the last returned time and      *)
(*                  whether the last returned solution was None            *)
(*   returned       the times of the solutions next_time_step returned     *)
(*   nones          number of calls that returned None                     *)
(*   solves         number of calls that ran the three Newton solves       *)
(*   t, i, U_all    the local variables of _compute_solution (U_all as the *)
(*                  times of its vectors), done once its loop has ended    *)
CallNextTimeStep ==
  /\ cellmodel.pc = "run"
  /\ Len(cellmodel.returned) + cellmodel.nones < MaxCalls
  /\ LET r == next_time_step(cellmodel.time, cellmodel.t_end, cellmodel.dt)
     IN cellmodel' =
          IF r.U = None
          THEN [cellmodel EXCEPT !.time = r.t, !.current = None,
                                 !.nones = @ + 1]
          ELSE [cellmodel EXCEPT !.time = r.t, !.current = "U",
                                 !.returned = Append(@, [from |-> cellmodel.time,
                                                         t |-> r.t, off |-> r.off]),
                                 !.solves = @ + 1]

(* one test of  while t < self.t_end - 1e-14  and, if it holds, one pass   *)
(* of the loop of _compute_solution                                        *)
ComputeSolutionStep ==
  /\ cellmodel.pc = "run"
  /\ ~cellmodel.done
  /\ Len(cellmodel.U_all) < MaxCalls
  /\ IF cellmodel.t < cellmodel.t_end
     THEN LET n == time_plus_actual_dt(cellmodel.t, cellmodel.t_end, cellmodel.dt)
          IN cellmodel' = [cellmodel EXCEPT !.t = n.t, !.i = @ + 1,
                                            !.U_all = Append(@, n)]
     ELSE cellmodel' = [cellmodel EXCEPT !.done = TRUE]

CellModelNext ==
  \/ CallNextTimeStep /\ UNCHANGED << loopVars, hapodVars, opstate, boltz, scatter >>
  \/ ComputeSolutionStep /\ UNCHANGED << loopVars, hapodVars, opstate, boltz, scatter >>

(* a CellModel with its initial values at t = 0 *)
CellModelInit ==
  /\ cellmodel \in
       { [pc |-> "run", t_end |-> te, dt |-> d,
          time |-> 0, current |-> "U", returned |-> << >>, nones |-> 0,
          solves |-> 0,
          t |-> 0, i |-> 0, U_all |-> << [t |-> 0, off |-> 0] >>, done |-> FALSE] :
         te \in 0 .. MaxTEnd, d \in 0 .. MaxDt }
  (* the time loop is not running *)
  /\ t_end = 0 /\ dt = 0 /\ chunk_size = 0
  /\ include_newton_stages = FALSE
  /\ newton_iters = 1
  /\ lpc = "off"
  /\ helper = None
  /\ num_chunks = 0 /\ num_time_steps = 0
  /\ chunk_index = 0 /\ p = 0 /\ time_index = 0 /\ time = 0 /\ old_time = 0
  /\ current_values = [q \in Mus |-> "U"]
  /\ new_vecs = EmptyVecs
  /\ chunk_sizes = << >>
  (* binary_tree_hapod is not running *)
  /\ gen_num_chunks = 0
  /\ num_nodes = 0
  /\ incremental_gramian = FALSE
  /\ index_order = << 0, 3 >>
  /\ tree_calls = [q \in Procs |-> [k \in indices |-> 0]]
  /\ pc = [q \in Procs |-> "absent"]
  /\ kpos = [q \in Procs |-> 1]
  /\ gen = [q \in Procs |-> 0]
  /\ tree_depth = [q \in Procs |-> 0]
  /\ vecs = [q \in Procs |-> NoArray]
  /\ results = [q \in Procs |-> [k \in indices |-> NewResult]]
  /\ sync_count = [q \in Procs |-> [k \in indices |-> 0]]
  /\ bcast_val = [n \in Nodes |-> -1]
  /\ gather_box = [n \in Nodes |-> [k \in indices |-> [r \in Ranks |-> << >>]]]
  /\ tree_box = [n \in Nodes |-> [k \in indices |-> {}]]
  /\ tree_level = [q \in Procs |-> 0]
  /\ stats_box = {}
  /\ node_pod_log = [q \in Procs |-> [k \in indices |-> << >>]]
  /\ tree_pod_log = [q \in Procs |-> [k \in indices |-> << >>]]
  /\ opstate = OperatorsIdle
  /\ boltz = RhsIdle
  /\ scatter = ScatterIdle

SpecCellModel == CellModelInit /\ [][CellModelNext]_vars

(* ============ the operators sharing one CellModelSolver ================ *)
(* VectorArrays are objects: no class of the sources defines == for them,  *)
(* so dofs[0] == solver._last_pfield_dofs compares the objects themselves. *)
(* A fixed-component operator holds its own copies of the component        *)
(* values; a fixed-component Jacobian operator holds the objects that the  *)
(* solver cached when it was built and its own copy of the Jacobian value. *)
(* Parameters (Mu) compare by value.  0 stands for None.                   *)
OpTypes == {"pfield", "ofield", "stokes"}
FixedOps == 1 .. MaxFixedOps
NoDofs == 0
NoMu == 0
MuValues == 1 .. NumMuValues

(* component c of fixed-component operator i: U.copy() in its constructor *)
FixedObj(i, c) == 10 * i + c
(* jacobian_value.copy() in the constructor of Jacobian operator j *)
JacObj(j) == 100 + j

(* the operator that fix_components was called on: the model makes the   *)
(* fixed-component operators in rounds of one per operator, as a time    *)
(* step of CellModel does                                                *)
FixedType(i) ==
  CASE i % 3 = 1 -> "pfield"
    [] i % 3 = 2 -> "ofield"
    [] OTHER -> "stokes"
(* the state the operators of one round are fixed to *)
FixedContent(i) == (i + 2) \div 3

component_value(st, i) ==
  IF FixedType(i) = "stokes"
  THEN << FixedObj(i, 1), FixedObj(i, 2) >>
  ELSE << FixedObj(i, 1), FixedObj(i, 2), FixedObj(i, 3) >>

(* the vector held by an object *)
ContentOf(st, a) ==
  IF a = NoDofs THEN 0 ELSE IF a >= 100 THEN a ELSE FixedContent(a \div 10)

(* comparing the vectors instead of the objects *)
same_dofs_by_value(st, a, b) == ContentOf(st, a) = ContentOf(st, b)
(* a == b on VectorArrays (or None) *)
same_dofs(st, a, b) == a = b

(* every request handed on, changed or not *)
new_dofs_always(st, requested, last) == requested
(* None if dofs[i] == solver._last_X_dofs else dofs[i] *)
new_dofs(st, requested, last) ==
  IF same_dofs(st, requested, last) THEN NoDofs ELSE requested

(* None if mu == solver._last_mu else mu *)
new_mu_of(mu, last) == IF mu = last THEN NoMu ELSE mu

(* update_pfield_parameters / update_ofield_parameters, called by the     *)
(* _change_state of the pfield / ofield operator                          *)
update_parameters(st, X, mu) ==
  IF X = "pfield"
  THEN [st EXCEPT !.pfield_params = mu,
                  !.jac_fresh = [@ EXCEPT !["pfield"] = FALSE],
                  !.prepared = [Y \in OpTypes |-> FALSE]]
  ELSE [st EXCEPT !.ofield_params = mu,
                  !.jac_fresh = [@ EXCEPT !["ofield"] = FALSE],
                  !.prepared = [Y \in OpTypes |-> FALSE]]

(* set_pfield_vec, set_ofield_vec, set_stokes_vec *)
set_pfield_vec(st, d) ==
  [st EXCEPT !.pfield_vec = d,
             !.jac_fresh = [@ EXCEPT !["pfield"] = FALSE],
             !.prepared = [Y \in OpTypes |-> FALSE]]
set_ofield_vec(st, d) ==
  [st EXCEPT !.ofield_vec = d,
             !.jac_fresh = [@ EXCEPT !["ofield"] = FALSE],
             !.prepared = [Y \in OpTypes |-> FALSE]]
set_stokes_vec(st, d) ==
  [st EXCEPT !.stokes_vec = d,
             !.prepared = [Y \in OpTypes |-> FALSE]]

(* prepare_pfield_operator, prepare_ofield_operator, prepare_stokes_operator *)
prepare_operator(st, X) == [st EXCEPT !.prepared = [@ EXCEPT ![X] = TRUE]]

(* CellModelPfieldOperator._change_state, CellModelOfieldOperator._change_state, *)
(* CellModelStokesOperator._change_state                                         *)
change_state(st, X, pd, od, sd, mu) ==
  IF X = "stokes"
  THEN LET s2 == IF pd # NoDofs THEN set_pfield_vec(st, pd) ELSE st
           s3 == IF od # NoDofs THEN set_ofield_vec(s2, od) ELSE s2
       IN IF ~(pd = NoDofs /\ od = NoDofs) THEN prepare_operator(s3, X) ELSE s3
  ELSE LET s1 == IF mu # NoMu THEN update_parameters(st, X, mu) ELSE st
           s2 == IF pd # NoDofs THEN set_pfield_vec(s1, pd) ELSE s1
           s3 == IF od # NoDofs THEN set_ofield_vec(s2, od) ELSE s2
           s4 == IF sd # NoDofs THEN set_stokes_vec(s3, sd) ELSE s3
       IN IF ~(pd = NoDofs /\ od = NoDofs /\ sd = NoDofs /\ mu = NoMu)
          THEN prepare_operator(s4, X) ELSE s4

(* MutableStateComponentOperator._set_state *)
base_set_state(st, X, dofs, mu) ==
  LET new_pfield_dofs == new_dofs(st, dofs[1], st.last_pfield_dofs)
      new_ofield_dofs == new_dofs(st, dofs[2], st.last_ofield_dofs)
      new_stokes_dofs == IF Len(dofs) < 3 THEN NoDofs
                         ELSE new_dofs(st, dofs[3], st.last_stokes_dofs)
      new_mu == new_mu_of(mu, st.last_mu)
      called == ~(new_pfield_dofs = NoDofs /\ new_ofield_dofs = NoDofs
                  /\ new_stokes_dofs = NoDofs /\ new_mu = NoMu)
      s1 == IF called
            THEN change_state(st, X, new_pfield_dofs, new_ofield_dofs,
                              new_stokes_dofs, new_mu)
            ELSE st
  IN [s1 EXCEPT
        !.last_pfield_dofs = IF new_pfield_dofs # NoDofs THEN new_pfield_dofs ELSE @,
        !.last_ofield_dofs = IF new_ofield_dofs # NoDofs THEN new_ofield_dofs ELSE @,
        !.last_stokes_dofs = IF new_stokes_dofs # NoDofs THEN new_stokes_dofs ELSE @,
        !.last_mu = IF new_mu # NoMu THEN mu ELSE @,
        !.call = [op |-> X, dofs |-> dofs, mu |-> mu,
                  before |-> << st.last_pfield_dofs, st.last_ofield_dofs,
                                st.last_stokes_dofs, st.last_mu >>,
                  called |-> called,
                  passed |-> << new_pfield_dofs, new_ofield_dofs,
                                new_stokes_dofs, new_mu >>]]

(* never invalidating, as the Stokes operator does *)
need_to_invalidate_never(X, pfield_changed, ofield_changed, stokes_changed, mu_changed) ==
  FALSE
(* _need_to_invalidate_jacobian_state of the three operators *)
need_to_invalidate_jacobian_state(X, pfield_changed, ofield_changed, stokes_changed, mu_changed) ==
  CASE X = "pfield" -> pfield_changed \/ mu_changed
    [] X = "ofield" -> ofield_changed \/ mu_changed
    [] OTHER -> FALSE

(* MutableStateComponentJacobianOperator._set_state *)
set_state(st, X, dofs, mu) ==
  LET mu_changed == mu # st.last_mu
      pfield_changed == ~same_dofs(st, dofs[1], st.last_pfield_dofs)
      ofield_changed == ~same_dofs(st, dofs[2], st.last_ofield_dofs)
      stokes_changed == IF Len(dofs) < 3 THEN FALSE
                        ELSE ~same_dofs(st, dofs[3], st.last_stokes_dofs)
      inv == need_to_invalidate_jacobian_state(X, pfield_changed, ofield_changed,
                                               stokes_changed, mu_changed)
      s0 == IF inv THEN [st EXCEPT !.last_jacobian_value = [@ EXCEPT ![X] = NoDofs]]
            ELSE st
  IN [base_set_state(s0, X, dofs, mu) EXCEPT !.invalidated = inv]

(* set_pfield_jacobian_state / set_ofield_jacobian_state; pass for Stokes *)
change_jacobian_state(st, X, J) ==
  IF X = "stokes" THEN st
  ELSE [st EXCEPT !.jac_state = [@ EXCEPT ![X] = J],
                  !.jac_fresh = [@ EXCEPT ![X] = TRUE]]

(* MutableStateComponentJacobianOperator._set_state_jacobian *)
set_state_jacobian(st, X, dofs, mu, J) ==
  LET s1 == set_state(st, X, dofs, mu)
      changed == J # s1.last_jacobian_value[X]
      s2 == IF changed THEN change_jacobian_state(s1, X, J) ELSE s1
  IN [s2 EXCEPT !.last_jacobian_value = [@ EXCEPT ![X] = J],
                !.jac_called = changed,
                !.jac_before = st.last_jacobian_value[X]]

(* MutableStateFixedComponentOperator.apply: _set_state, _fixed_component_apply *)
FixedApply(i, mu) ==
  /\ opstate.pc = "run"
  /\ \E s \in { set_state(opstate, FixedType(i), component_value(opstate, i), mu) } :
       opstate' = [s EXCEPT !.kind = "apply", !.who = i]

(* MutableStateFixedComponentOperator.jacobian: _set_state, then            *)
(* _fixed_component_jacobian builds the Jacobian operator from the caches  *)
FixedJacobian(i, mu) ==
  /\ opstate.pc = "run"
  /\ Len(opstate.jacs) < MaxJacs
  /\ \E s \in { set_state(opstate, FixedType(i), component_value(opstate, i), mu) } :
       /\ mu = NoMu \/ mu = s.last_mu
       /\ opstate' = [s EXCEPT
            !.kind = "jacobian", !.who = i,
            !.jacs = Append(@, [operator |-> FixedType(i),
                                component_value |-> << s.last_pfield_dofs,
                                                       s.last_ofield_dofs,
                                                       s.last_stokes_dofs >>,
                                mu |-> s.last_mu,
                                jacobian_value |-> JacObj(Len(s.jacs) + 1)])]

(* MutableStateFixedComponentJacobianOperator.apply: _set_state_jacobian,  *)
(* _fixed_component_jacobian_apply                                         *)
JacobianApply(j) ==
  /\ opstate.pc = "run"
  /\ j \in 1 .. Len(opstate.jacs)
  /\ \E s \in { set_state_jacobian(opstate, opstate.jacs[j].operator,
                                   opstate.jacs[j].component_value,
                                   opstate.jacs[j].mu,
                                   opstate.jacs[j].jacobian_value) } :
       opstate' = [s EXCEPT !.kind = "jacobian_apply", !.who = j]

OperatorsNext ==
  \/ \E i \in FixedOps, mu \in MuValues \cup {NoMu} :
       FixedApply(i, mu) /\ UNCHANGED << loopVars, hapodVars, cellmodel, boltz, scatter >>
  \/ \E i \in FixedOps, mu \in MuValues \cup {NoMu} :
       FixedJacobian(i, mu) /\ UNCHANGED << loopVars, hapodVars, cellmodel, boltz, scatter >>
  \/ \E j \in 1 .. MaxJacs :
       JacobianApply(j) /\ UNCHANGED << loopVars, hapodVars, cellmodel, boltz, scatter >>

(* a CellModelSolver built with parameter mu, its three operators, and     *)
(* fixed-component operators made from them by fix_components              *)
OperatorsInit ==
  /\ opstate \in
       { [pc |-> "run",
          last_pfield_dofs |-> NoDofs, last_ofield_dofs |-> NoDofs,
          last_stokes_dofs |-> NoDofs, last_mu |-> mu,
          pfield_params |-> mu, ofield_params |-> mu,
          pfield_vec |-> NoDofs, ofield_vec |-> NoDofs, stokes_vec |-> NoDofs,
          prepared |-> [Y \in OpTypes |-> FALSE],
          jac_state |-> [Y \in OpTypes |-> NoDofs],
          jac_fresh |-> [Y \in OpTypes |-> FALSE],
          last_jacobian_value |-> [Y \in OpTypes |-> NoDofs],
          jacs |-> << >>,
          kind |-> "none", who |-> 0,
          call |-> [op |-> "none", dofs |-> << >>, mu |-> NoMu,
                    before |-> << NoDofs, NoDofs, NoDofs, NoMu >>,
                    called |-> FALSE,
                    passed |-> << NoDofs, NoDofs, NoDofs, NoMu >>],
          invalidated |-> FALSE, jac_called |-> FALSE, jac_before |-> NoDofs] :
         mu \in MuValues }
  (* the time loop is not running *)
  /\ t_end = 0 /\ dt = 0 /\ chunk_size = 0
  /\ include_newton_stages = FALSE
  /\ newton_iters = 1
  /\ lpc = "off"
  /\ helper = None
  /\ num_chunks = 0 /\ num_time_steps = 0
  /\ chunk_index = 0 /\ p = 0 /\ time_index = 0 /\ time = 0 /\ old_time = 0
  /\ current_values = [q \in Mus |-> "U"]
  /\ new_vecs = EmptyVecs
  /\ chunk_sizes = << >>
  (* binary_tree_hapod is not running *)
  /\ gen_num_chunks = 0
  /\ num_nodes = 0
  /\ incremental_gramian = FALSE
  /\ index_order = << 0, 3 >>
  /\ tree_calls = [q \in Procs |-> [k \in indices |-> 0]]
  /\ pc = [q \in Procs |-> "absent"]
  /\ kpos = [q \in Procs |-> 1]
  /\ gen = [q \in Procs |-> 0]
  /\ tree_depth = [q \in Procs |-> 0]
  /\ vecs = [q \in Procs |-> NoArray]
  /\ results = [q \in Procs |-> [k \in indices |-> NewResult]]
  /\ sync_count = [q \in Procs |-> [k \in indices |-> 0]]
  /\ bcast_val = [n \in Nodes |-> -1]
  /\ gather_box = [n \in Nodes |-> [k \in indices |-> [r \in Ranks |-> << >>]]]
  /\ tree_box = [n \in Nodes |-> [k \in indices |-> {}]]
  /\ tree_level = [q \in Procs |-> 0]
  /\ stats_box = {}
  /\ node_pod_log = [q \in Procs |-> [k \in indices |-> << >>]]
  /\ tree_pod_log = [q \in Procs |-> [k \in indices |-> << >>]]
  /\ cellmodel = CellModelIdle
  /\ boltz = RhsIdle
  /\ scatter = ScatterIdle

SpecOperators == OperatorsInit /\ [][OperatorsNext]_vars

(* ================ the Boltzmann Solver's RHS parameters ================= *)
(* a parameter tuple (sigma_s_scattering, sigma_s_absorbing,               *)
(* sigma_t_scattering, sigma_t_absorbing) is a number of RhsMus; 0 is None *)
RhsMus == 1 .. NumRhsMus

(* Solver.set_rhs_operator_params *)
set_rhs_operator_params(b, mu) ==
  IF mu # b.last_mu
  THEN [b EXCEPT !.last_mu = mu, !.rhs_operator_parameters = mu]
  ELSE b

(* Solver.set_rhs_timestepper_params *)
set_rhs_timestepper_params(b, mu) ==
  IF mu # b.last_mu
  THEN [b EXCEPT !.last_mu = mu, !.rhs_timestepper_parameters = mu]
  ELSE b

SetRhsOperatorParams(mu) ==
  /\ boltz.pc = "run"
  /\ boltz' = [set_rhs_operator_params(boltz, mu) EXCEPT
                 !.call = [method |-> "set_rhs_operator_params", mu |-> mu],
                 !.before = boltz.last_mu]

SetRhsTimestepperParams(mu) ==
  /\ boltz.pc = "run"
  /\ boltz' = [set_rhs_timestepper_params(boltz, mu) EXCEPT
                 !.call = [method |-> "set_rhs_timestepper_params", mu |-> mu],
                 !.before = boltz.last_mu]

(* RHSOperator.apply: set_rhs_operator_params(mu['s']), apply_rhs_operator *)
RHSOperatorApply(mu) ==
  /\ boltz.pc = "run"
  /\ boltz' = [set_rhs_operator_params(boltz, mu) EXCEPT
                 !.call = [method |-> "apply", mu |-> mu],
                 !.before = boltz.last_mu]

RhsNext ==
  \/ \E mu \in RhsMus :
       SetRhsOperatorParams(mu) /\ UNCHANGED << loopVars, hapodVars, cellmodel, opstate, scatter >>
  \/ \E mu \in RhsMus :
       SetRhsTimestepperParams(mu) /\ UNCHANGED << loopVars, hapodVars, cellmodel, opstate, scatter >>
  \/ \E mu \in RhsMus :
       RHSOperatorApply(mu) /\ UNCHANGED << loopVars, hapodVars, cellmodel, opstate, scatter >>

(* Solver.__init__: the parameters are those the C++ solver was built     *)
(* with, last_mu is None                                                  *)
RhsInit ==
  /\ boltz \in
       { [pc |-> "run", last_mu |-> 0,
          rhs_operator_parameters |-> p0, rhs_timestepper_parameters |-> p0,
          call |-> [method |-> "none", mu |-> 0], before |-> 0] :
         p0 \in RhsMus }
  (* the time loop is not running *)
  /\ t_end = 0 /\ dt = 0 /\ chunk_size = 0
  /\ include_newton_stages = FALSE
  /\ newton_iters = 1
  /\ lpc = "off"
  /\ helper = None
  /\ num_chunks = 0 /\ num_time_steps = 0
  /\ chunk_index = 0 /\ p = 0 /\ time_index = 0 /\ time = 0 /\ old_time = 0
  /\ current_values = [q \in Mus |-> "U"]
  /\ new_vecs = EmptyVecs
  /\ chunk_sizes = << >>
  (* binary_tree_hapod is not running *)
  /\ gen_num_chunks = 0
  /\ num_nodes = 0
  /\ incremental_gramian = FALSE
  /\ index_order = << 0, 3 >>
  /\ tree_calls = [q \in Procs |-> [k \in indices |-> 0]]
  /\ pc = [q \in Procs |-> "absent"]
  /\ kpos = [q \in Procs |-> 1]
  /\ gen = [q \in Procs |-> 0]
  /\ tree_depth = [q \in Procs |-> 0]
  /\ vecs = [q \in Procs |-> NoArray]
  /\ results = [q \in Procs |-> [k \in indices |-> NewResult]]
  /\ sync_count = [q \in Procs |-> [k \in indices |-> 0]]
  /\ bcast_val = [n \in Nodes |-> -1]
  /\ gather_box = [n \in Nodes |-> [k \in indices |-> [r \in Ranks |-> << >>]]]
  /\ tree_box = [n \in Nodes |-> [k \in indices |-> {}]]
  /\ tree_level = [q \in Procs |-> 0]
  /\ stats_box = {}
  /\ node_pod_log = [q \in Procs |-> [k \in indices |-> << >>]]
  /\ tree_pod_log = [q \in Procs |-> [k \in indices |-> << >>]]
  /\ cellmodel = CellModelIdle
  /\ opstate = OperatorsIdle
  /\ scatter = ScatterIdle

SpecRhs == RhsInit /\ [][RhsNext]_vars

(* ============ create_and_scatter_cellmodel_parameters ================== *)
CommRanks == 0 .. (scatter.size - 1)

(* int(comm.Get_size() ** (1. / 3.) + 0.1): the largest k with            *)
(* k - 0.1 <= size ** (1/3), that is (10 k - 1) ** 3 <= 1000 size; no      *)
(* size makes the two sides equal, so the rounding of the float cube root *)
(* does not matter                                                         *)
num_samples_per_parameter(size) ==
  CHOOSE k \in 1 .. size :
    /\ (10 * k - 1) * (10 * k - 1) * (10 * k - 1) <= 1000 * size
    /\ (10 * k + 9) * (10 * k + 9) * (10 * k + 9) > 1000 * size

(* len(np.arange(min, max + 1e-15, sample_width)): one value when the     *)
(* width is 1e10, else min, min + width, ..., max                         *)
range_len(k) == IF k > 1 THEN k ELSE 1

(* the three nested loops over Re_range, Fa_range, xi_range *)
grid_list(k) ==
  [j \in 1 .. range_len(k) * range_len(k) * range_len(k) |->
     [Re |-> (j - 1) \div (range_len(k) * range_len(k)),
      Fa |-> ((j - 1) \div range_len(k)) % range_len(k),
      xi |-> (j - 1) % range_len(k),
      random |-> 0]]

(* while len(parameters_list) < comm.Get_size(): append a random combination *)
parameters_list(size, r) ==
  LET grid == grid_list(num_samples_per_parameter(size))
  IN grid \o [j \in 1 .. (size - Len(grid)) |->
                [Re |-> -1, Fa |-> -1, xi |-> -1, random |-> 100 * r + j]]

(* a rank builds its list and enters comm.scatter *)
CreateParameters(r) ==
  /\ scatter.pc = "run"
  /\ r \in CommRanks
  /\ scatter.rpc[r] = "call"
  /\ scatter' = [scatter EXCEPT !.rpc[r] = "scatter",
                                !.plist[r] = parameters_list(scatter.size, r)]

(* comm.scatter at the root: one item per rank, or an exception if the    *)
(* list does not have comm.Get_size() items                               *)
ScatterRoot ==
  /\ scatter.pc = "run"
  /\ scatter.rpc[0] = "scatter"
  /\ IF Len(scatter.plist[0]) = scatter.size
     THEN scatter' = [scatter EXCEPT !.rpc[0] = "done",
                                     !.sent = scatter.plist[0],
                                     !.got[0] = scatter.plist[0][1]]
     ELSE scatter' = [scatter EXCEPT !.rpc[0] = "error"]

(* comm.scatter at another rank: returns the item of the root's list *)
ScatterRecv(r) ==
  /\ scatter.pc = "run"
  /\ r \in CommRanks /\ r # 0
  /\ scatter.rpc[r] = "scatter"
  /\ scatter.sent # << >>
  /\ scatter' = [scatter EXCEPT !.rpc[r] = "done", !.got[r] = scatter.sent[r + 1]]

ScatterNext ==
  \/ \E r \in 0 .. (MaxCommSize - 1) :
       CreateParameters(r) /\ UNCHANGED << loopVars, hapodVars, cellmodel, opstate, boltz >>
  \/ ScatterRoot /\ UNCHANGED << loopVars, hapodVars, cellmodel, opstate, boltz >>
  \/ \E r \in 0 .. (MaxCommSize - 1) :
       ScatterRecv(r) /\ UNCHANGED << loopVars, hapodVars, cellmodel, opstate, boltz >>

(* every rank of a communicator of size n calls the function *)
ScatterInit ==
  /\ scatter \in
       { [pc |-> "run", size |-> n,
          rpc |-> [r \in 0 .. (n - 1) |-> "call"],
          plist |-> [r \in 0 .. (n - 1) |-> << >>],
          sent |-> << >>,
          got |-> [r \in 0 .. (n - 1) |-> None]] :
         n \in 1 .. MaxCommSize }
  (* the time loop is not running *)
  /\ t_end = 0 /\ dt = 0 /\ chunk_size = 0
  /\ include_newton_stages = FALSE
  /\ newton_iters = 1
  /\ lpc = "off"
  /\ helper = None
  /\ num_chunks = 0 /\ num_time_steps = 0
  /\ chunk_index = 0 /\ p = 0 /\ time_index = 0 /\ time = 0 /\ old_time = 0
  /\ current_values = [q \in Mus |-> "U"]
  /\ new_vecs = EmptyVecs
  /\ chunk_sizes = << >>
  (* binary_tree_hapod is not running *)
  /\ gen_num_chunks = 0
  /\ num_nodes = 0
  /\ incremental_gramian = FALSE
  /\ index_order = << 0, 3 >>
  /\ tree_calls = [q \in Procs |-> [k \in indices |-> 0]]
  /\ pc = [q \in Procs |-> "absent"]
  /\ kpos = [q \in Procs |-> 1]
  /\ gen = [q \in Procs |-> 0]
  /\ tree_depth = [q \in Procs |-> 0]
  /\ vecs = [q \in Procs |-> NoArray]
  /\ results = [q \in Procs |-> [k \in indices |-> NewResult]]
  /\ sync_count = [q \in Procs |-> [k \in indices |-> 0]]
  /\ bcast_val = [n \in Nodes |-> -1]
  /\ gather_box = [n \in Nodes |-> [k \in indices |-> [r \in Ranks |-> << >>]]]
  /\ tree_box = [n \in Nodes |-> [k \in indices |-> {}]]
  /\ tree_level = [q \in Procs |-> 0]
  /\ stats_box = {}
  /\ node_pod_log = [q \in Procs |-> [k \in indices |-> << >>]]
  /\ tree_pod_log = [q \in Procs |-> [k \in indices |-> << >>]]
  /\ cellmodel = CellModelIdle
  /\ opstate = OperatorsIdle
  /\ boltz = RhsIdle

SpecScatter == ScatterInit /\ [][ScatterNext]_vars

(* ======================= claims on SpecLoop ============================ *)
HelperReturned == helper # None /\ lpc # "error"
LoopStates == {"chunk_begin", "param_begin", "step", "param_end", "pods", "done",
               "assert_failed"}
last_chunk_size == num_time_steps - chunk_size * (num_chunks - 1)

RECURSIVE SumSizes(_, _, _)
SumSizes(sizes, k, q) ==
  IF sizes = << >> THEN 0
  ELSE Head(sizes)[k][q] + SumSizes(Tail(sizes), k, q)

(* C1: whenever a chunk-count helper returns, num_time_steps is            *)
(* ceil(t_end/dt)+1 (an integer bound of the quotient plus one), num_chunks *)
(* is the least number of chunks of chunk_size vectors that hold           *)
(* num_time_steps vectors, and the last chunk size lies in 1..chunk_size,  *)
(* so num_chunks-1 full chunks plus the last one cover num_time_steps.     *)
C1_ChunkCountFormula ==
  HelperReturned =>
    /\ num_time_steps = math_ceil_div(t_end, dt) + 1
    /\ (num_time_steps - 1) * dt >= t_end
    /\ num_chunks * chunk_size >= num_time_steps
    /\ (num_chunks - 1) * chunk_size < num_time_steps
    /\ 1 <= last_chunk_size
    /\ last_chunk_size <= chunk_size
    /\ (num_chunks - 1) * chunk_size + last_chunk_size = num_time_steps

C1_Witness ==
  /\ lpc = "returned"
  /\ helper = "get_num_chunks_and_num_timesteps"
  /\ t_end = 10 /\ dt = 1 /\ chunk_size = 3
  /\ num_chunks = 4 /\ num_time_steps = 11

(* C2: a configuration whose formula gives fewer than 2 chunks (all        *)
(* ceil(t_end/dt)+1 vectors fit into one chunk) makes the helper raise, so *)
(* the chunk loop never runs with fewer than 2 chunks.                     *)
C2_SingleChunkRejected ==
  /\ ( /\ helper # None
       /\ dt > 0
       /\ chunk_size > 0
       /\ math_ceil_div(t_end, dt) + 1 <= chunk_size )
     => (lpc = "error" /\ chunk_sizes = << >>)
  /\ (lpc \in LoopStates) => num_chunks >= 2

C2_Witness ==
  /\ helper = "solver_statistics"
  /\ lpc = "error"
  /\ t_end = 2 /\ dt = 1 /\ chunk_size = 4

C3_ExampleSizes ==
  ( /\ lpc = "done" /\ ~include_newton_stages
    /\ t_end = 10 /\ dt = 1 /\ chunk_size = 3 )
  => \A q \in Mus :
       << chunk_sizes[1][0][q], chunk_sizes[2][0][q],
          chunk_sizes[3][0][q], chunk_sizes[4][0][q] >> = << 3, 3, 3, 2 >>

Started(q) == pc[q] \notin {"absent", "depth"}
C5_SmallTreeDepthRejected ==
  \A q \in ActiveProcs :
    (pc[q] \notin {"absent", "depth", "create"} /\ tree_depth[q] < 2) =>
      /\ pc[q] = "config_error"
      /\ gen[q] = 0
      /\ vecs[q] = NoArray
      /\ \A k \in indices :
           /\ sync_count[q][k] = 0
           /\ gather_box[node_of(q)][k][rank_proc(q)] = << >>
           /\ results[q][k].modes.none
           /\ results[q][k].gathered_modes.none
           /\ node_pod_log[q][k] = << >>

C5_Witness ==
  \E q \in ActiveProcs :
    /\ pc[q] = "config_error"
    /\ tree_depth[q] = 1
    /\ gen_num_chunks = 1

C7_SyncBeforeGather ==
  \A q \in ActiveProcs : \A k \in indices :
    /\ \A i \in 1 .. Len(gather_box[node_of(q)][k][rank_proc(q)]) :
         LET m == gather_box[node_of(q)][k][rank_proc(q)][i]
         IN /\ m.vecs.scaled
            /\ m.vecs.lvl = 1
            /\ \A r \in Group(q) : sync_count[r][k] >= m.vecs.chunk + 1
    /\ ~results[q][k].gathered_modes.none =>
         /\ results[q][k].gathered_modes.scaled
         /\ \A r \in Group(q) :
              sync_count[r][k] >= results[q][k].gathered_modes.chunk + 1
    /\ (pc[q] = "sync_wait" /\ Slot(q, kpos[q]) = k) =>
         /\ vecs[q].scaled
         /\ vecs[q].lvl = 1
         /\ vecs[q].chunk = gen[q] - 1
         /\ sync_count[q][k] = gen[q]

C7_Witness ==
  \E q \in ActiveProcs : \E k \in indices :
    /\ gather_box[node_of(q)][k][rank_proc(q)] # << >>
    /\ Head(gather_box[node_of(q)][k][rank_proc(q)]).vecs.chunk = 1
    /\ \E r \in Group(q) : pc[r] = "sync_wait" /\ Slot(r, kpos[r]) = k

(* C8: on every group root the merges of a slot take the gathered sets of  *)
(* the chunks 0, 1, 2, ... in this order, one per chunk, and the gathered  *)
(* set a root holds is that of the chunk merged last or of the next one.   *)
C8_MergesInChunkOrder ==
  \A q \in ActiveProcs : \A k \in indices :
    /\ \A i \in 1 .. Len(node_pod_log[q][k]) : node_pod_log[q][k][i].chunk = i - 1
    /\ ~results[q][k].gathered_modes.none =>
         /\ results[q][k].gathered_modes.chunk <= Len(node_pod_log[q][k])
         /\ results[q][k].gathered_modes.chunk >= Len(node_pod_log[q][k]) - 1

C8_Witness ==
  \E q \in ActiveProcs : \E k \in indices :
    /\ ~results[q][k].gathered_modes.none
    /\ results[q][k].gathered_modes.chunk = 1
    /\ Len(node_pod_log[q][k]) = 1
    /\ pc[q] = "sync_wait"
    /\ \E r \in Group(q) : r # q /\ gen[r] = 2 /\ sync_count[r][k] = 2

(* C9: the node-level POD of chunk 0 is a non-incremental POD of the       *)
(* gathered set alone; that of a later chunk merges the basis of the       *)
(* preceding chunk with the gathered set and is incremental exactly if the *)
(* flag is set; a merge always finds a prior basis.                        *)
C9_FirstPlainLaterMerge ==
  \A q \in ActiveProcs : \A k \in indices :
    \A i \in 1 .. Len(node_pod_log[q][k]) :
      LET e == node_pod_log[q][k][i]
      IN /\ e.chunk = 0 =>
              (e.branch = "first" /\ ~e.incremental /\ e.n_prior = 0 /\ ~e.prior)
         /\ e.chunk > 0 =>
              /\ e.branch = "merge"
              /\ e.incremental = incremental_gramian
              /\ e.prior
              /\ e.prior_chunk = e.chunk - 1
         /\ e.branch = "merge" => e.prior

C9_Witness ==
  \E q \in ActiveProcs : \E k \in indices :
    /\ Len(node_pod_log[q][k]) = 2
    /\ node_pod_log[q][k][1].branch = "first"
    /\ node_pod_log[q][k][2].branch = "merge"
    /\ node_pod_log[q][k][2].incremental

(* C10: a group merge is flagged root_of_tree exactly if it merges the     *)
(* last chunk and the slot's cross-node rank group has size 1; it uses     *)
(* final_orth_tol exactly if it is flagged and orth_tol otherwise; at most *)
(* one group merge per slot is flagged.                                    *)
C10_RootOfTreeFlag ==
  \A q \in ActiveProcs : \A k \in indices :
    /\ \A i \in 1 .. Len(node_pod_log[q][k]) :
         LET e == node_pod_log[q][k][i]
         IN /\ e.root_of_tree <=> (e.chunk = gen_num_chunks - 1 /\ num_nodes = 1)
            /\ e.tol = (IF e.root_of_tree THEN "final_orth_tol" ELSE "orth_tol")
    /\ Cardinality({ i \in 1 .. Len(node_pod_log[q][k]) :
                       node_pod_log[q][k][i].root_of_tree }) <= 1

C10_Witness ==
  \E q \in ActiveProcs : \E k \in indices :
    /\ Len(node_pod_log[q][k]) = 2
    /\ node_pod_log[q][k][2].root_of_tree
    /\ node_pod_log[q][k][2].tol = "final_orth_tol"
    /\ ~node_pod_log[q][k][1].root_of_tree

(* C12: for every slot the cross-node tree reduction is called at most     *)
(* once on a process, only on the slot's group roots and only after the    *)
(* chunk generator is exhausted and the root has merged the slot's last    *)
(* chunk; no tree merge or tree message exists without that call, and a    *)
(* root that has reached the final barrier has made it exactly once.       *)
C12_TreeReductionOncePerSlot ==
  \A q \in ActiveProcs : \A k \in indices :
    /\ tree_calls[q][k] <= 1
    /\ tree_calls[q][k] = 1 =>
         /\ rank_proc(q) = k % SizeProc
         /\ pc[q] \in {"final", "barrier", "done"}
         /\ gen[q] = gen_num_chunks
         /\ Len(node_pod_log[q][k]) = gen_num_chunks
         /\ node_pod_log[q][k][gen_num_chunks].chunk = gen_num_chunks - 1
    /\ ( \/ tree_pod_log[q][k] # << >>
         \/ \E n \in Nodes : \E m \in tree_box[n][k] :
              m.from = node_of(q) /\ m.rank = rank_proc(q) )
       => tree_calls[q][k] = 1
    /\ (pc[q] \in {"barrier", "done"} /\ rank_proc(q) = k % SizeProc)
       => tree_calls[q][k] = 1

C12_Witness ==
  /\ num_nodes = 2
  /\ \E q \in ActiveProcs : \E k \in indices :
       /\ pc[q] = "done"
       /\ tree_calls[q][k] = 1
       /\ Len(tree_pod_log[q][k]) = 1
       /\ \E r \in ActiveProcs : tree_calls[r][k] = 0 /\ pc[r] = "done"

(* the number of vectors fed into a slot by all processes in all chunks *)
TotalFed ==
  gen_num_chunks * SumOver([q \in Procs |-> IF Active(q) THEN ChunkLen(q) ELSE 0],
                           Procs)

(* C13: the total_num_snapshots that world rank 0 holds for a slot after   *)
(* the final gathers is the sum of the numbers of vectors fed into the     *)
(* slot over all processes and all chunks.                                 *)
C13_TotalIsSum ==
  \A k \in indices :
    results[<< 0, 0 >>][k].stats = "max" =>
      results[<< 0, 0 >>][k].total_num_snapshots = TotalFed

C13_Witness ==
  /\ num_nodes = 2
  /\ gen_num_chunks = 2
  /\ pc[<< 0, 0 >>] = "done"
  /\ results[<< 0, 0 >>][3].stats = "max"
  /\ results[<< 0, 0 >>][3].total_num_snapshots = 32
  /\ results[<< 0, 0 >>][0].total_num_snapshots = 32

ChunkLoopPcs == {"pod", "sync_wait", "gather", "node"}

RECURSIVE SumNumSnaps(_, _)
SumNumSnaps(log, i) == IF i = 0 THEN 0 ELSE log[i].num_snaps + SumNumSnaps(log, i - 1)

(* C14: on a group root the total_num_snapshots of a slot after the merge  *)
(* of chunk c is the sum of the num_snaps of the gathers of the chunks     *)
(* 0..c, it does not decrease from one merge to the next, and it keeps     *)
(* the value of the last merge for the rest of the chunk loop.             *)
C14_TotalGrowsByNumSnaps ==
  \A q \in ActiveProcs : \A k \in indices :
    LET log == node_pod_log[q][k]
    IN /\ \A i \in 1 .. Len(log) :
            /\ log[i].total = SumNumSnaps(log, i)
            /\ log[i].num_snaps >= 0
            /\ i > 1 => log[i].total >= log[i - 1].total
       /\ pc[q] \in ChunkLoopPcs =>
            results[q][k].total_num_snapshots =
              (IF log = << >> THEN 0 ELSE log[Len(log)].total)

C14_Witness ==
  \E q \in ActiveProcs : \E k \in indices :
    /\ pc[q] = "final"
    /\ results[q][k].stats = "local"
    /\ tree_pod_log[q][k] = << >>
    /\ Len(node_pod_log[q][k]) = 2
    /\ node_pod_log[q][k][1].num_snaps > 0
    /\ node_pod_log[q][k][2].total > node_pod_log[q][k][1].total
    /\ results[q][k].total_num_snapshots = node_pod_log[q][k][2].total

(* the two diagnostics of slot k on process q do not decrease in a step *)
DiagnosticsGrow(q, k) ==
  /\ results'[q][k].max_vectors_before_pod >= results[q][k].max_vectors_before_pod
  /\ results'[q][k].max_local_modes >= results[q][k].max_local_modes

(* the two diagnostics of slot k on process q cover every local POD that   *)
(* q has run for the slot: on its own chunk, as group root, in the tree    *)
DiagnosticsCoverPods(q, k) ==
  LET r == results[q][k]
  IN /\ sync_count[q][k] > 0 =>
          /\ r.max_vectors_before_pod >= ChunkLen(q)
          /\ r.max_local_modes >= LocalVecs(q, 0).n
     /\ \A i \in 1 .. Len(node_pod_log[q][k]) :
          LET e == node_pod_log[q][k][i]
          IN /\ r.max_vectors_before_pod >= e.n_prior + e.n_gathered
             /\ r.max_local_modes >= e.n_out
     /\ \A i \in 1 .. Len(tree_pod_log[q][k]) :
          LET e == tree_pod_log[q][k][i]
          IN /\ r.max_vectors_before_pod >= e.n_in
             /\ r.max_local_modes >= e.n_out

(* C15 (as stated): on every process and for every slot the two            *)
(* diagnostics never decrease, and after every local POD they are at least *)
(* the number of vectors handed to it and the number of modes it returned. *)
C15_DiagnosticsNeverDecrease ==
  [][\A q \in ActiveProcs : \A k \in indices :
       DiagnosticsGrow(q, k) /\ DiagnosticsCoverPods(q, k)']_vars

(* C15 (amended): the same, up to the final world gathers: there every     *)
(* process other than world rank 0 replaces the two diagnostics by the     *)
(* placeholder list [0]; on world rank 0 they do not decrease.             *)
C15_DiagnosticsGrowUntilGathered ==
  [][\A q \in ActiveProcs : \A k \in indices :
       results'[q][k].stats # "placeholder" =>
         (DiagnosticsGrow(q, k) /\ DiagnosticsCoverPods(q, k)')]_vars

C15_Witness ==
  \E q \in ActiveProcs : \E k \in indices :
    /\ results[q][k].stats = "local"
    /\ Len(node_pod_log[q][k]) = 2
    /\ Len(tree_pod_log[q][k]) = 1
    /\ results[q][k].max_vectors_before_pod = 
         node_pod_log[q][k][2].n_prior + node_pod_log[q][k][2].n_gathered
    /\ results[q][k].max_vectors_before_pod > tree_pod_log[q][k][1].n_in
    /\ results[q][k].max_vectors_before_pod > ChunkLen(q)

RECURSIVE MaxOfSeq(_)
MaxOfSeq(sq) == IF sq = << >> THEN 0 ELSE Max(Head(sq), MaxOfSeq(Tail(sq)))

(* the largest number of vectors process q has handed to a local POD of    *)
(* slot k, and the largest number of modes one has returned to it          *)
LocalMaxVectors(q, k) ==
  LET nl == node_pod_log[q][k]
      tl == tree_pod_log[q][k]
  IN Max(ChunkLen(q),
         Max(MaxOfSeq([i \in 1 .. Len(nl) |-> nl[i].n_prior + nl[i].n_gathered]),
             MaxOfSeq([i \in 1 .. Len(tl) |-> tl[i].n_in])))

LocalMaxModes(q, k) ==
  LET nl == node_pod_log[q][k]
      tl == tree_pod_log[q][k]
  IN Max(LocalVecs(q, 0).n,
         Max(MaxOfSeq([i \in 1 .. Len(nl) |-> nl[i].n_out]),
             MaxOfSeq([i \in 1 .. Len(tl) |-> tl[i].n_out])))

(* C16: after the final take-the-max, world rank 0 holds for every slot    *)
(* the maximum over all processes of the number of vectors handed to a     *)
(* local POD and of the number of modes returned by one, wherever that     *)
(* maximum occurred.                                                       *)
C16_ReportedMaxIsGlobalMax ==
  \A k \in indices :
    results[<< 0, 0 >>][k].stats = "max" =>
      /\ results[<< 0, 0 >>][k].max_vectors_before_pod =
           MaxOver([q \in ActiveProcs |-> LocalMaxVectors(q, k)], ActiveProcs)
      /\ results[<< 0, 0 >>][k].max_local_modes =
           MaxOver([q \in ActiveProcs |-> LocalMaxModes(q, k)], ActiveProcs)

(* the maximum of slot 0 occurs on a process that is neither a group root  *)
(* of the slot nor world rank 0                                            *)
C16_Witness ==
  /\ num_nodes = 2
  /\ gen_num_chunks = 2
  /\ results[<< 0, 0 >>][0].stats = "max"
  /\ results[<< 0, 0 >>][0].max_vectors_before_pod = ChunkLen(<< 1, 1 >>)
  /\ \A q \in ActiveProcs :
       rank_proc(q) = 0 % SizeProc => LocalMaxVectors(q, 0) < ChunkLen(<< 1, 1 >>)

(* C17 (as stated): at the end of the run the global root of a slot's      *)
(* tree, the root of the first group, holds the slot's final basis, its    *)
(* final total_num_snapshots and the two aggregated diagnostics; no other  *)
(* process holds the aggregated values, and no process that is not a       *)
(* group root of the slot holds a basis for it.                            *)
C17_AllFinalOnGlobalRoot ==
  \A k \in indices :
    LET g == << 0, k % SizeProc >>
    IN /\ pc[g] = "done" =>
            /\ ~results[g][k].modes.none
            /\ results[g][k].stats = "max"
            /\ results[g][k].total_num_snapshots = TotalFed
       /\ \A q \in ActiveProcs :
            pc[q] = "done" =>
              /\ q # g => results[q][k].stats # "max"
              /\ rank_proc(q) # k % SizeProc => results[q][k].modes.none

(* process q has left the chunk loop and has not gone further *)
JustLeftChunkLoop(q) ==
  /\ pc[q] = "final"
  /\ kpos[q] = 1
  /\ tree_level[q] = NextLevel(node_of(q), 0)

(* the place of slot j in the order in which indices yields the slots *)
PosOf(j) == CHOOSE i \in 1 .. Len(index_order) : index_order[i] = j

(* what processing slot j alone leaves in results[j] of process q while q  *)
(* is inside chunk number gen[q] and at place kpos[q] of the first slot    *)
(* loop: the outcome of the earlier chunks, then the local POD of this     *)
(* chunk once q has reached slot j, then the gather once q has passed it   *)
SlotDuringChunk(q, j) ==
  LET prev == ChunkLoopSlot(q, j, gen[q] - 1).r
      c == gen_chunk_index(gen[q])
      r1 == [prev EXCEPT
               !.max_vectors_before_pod = Max(@, ChunkLen(q)),
               !.max_local_modes = Max(@, LocalVecs(q, c).n)]
      r2 == IF rank_proc(q) = j % SizeProc
            THEN [r1 EXCEPT !.gathered_modes = Gathered(q, c),
                            !.num_snaps = Gathered(q, c).snaps]
            ELSE [r1 EXCEPT !.gathered_modes = NoArray, !.num_snaps = 0]
  IN IF PosOf(j) > kpos[q] THEN prev
     ELSE IF PosOf(j) = kpos[q] THEN r1 ELSE r2

ValidConfig ==
  HapodParametersOk(tree_depth_of(gen_num_chunks, binary_tree_depth(num_nodes)))

AllDone == \A q \in ActiveProcs : pc[q] = "done"

(* how far process q has come: the number of the blocking call it is at,   *)
(* counted through the broadcast, the chunks and slots of the chunk loop,  *)
(* the slots and tree levels of the last loop, and the barrier             *)
PositionOf(q) ==
  LET ns == Len(index_order)
      d == CeilLog2(num_nodes)
      loop_end == 1 + gen_num_chunks * ns
  IN CASE pc[q] \in {"absent", "depth"} -> 0
       [] pc[q] = "config_error" -> 1
       [] pc[q] \in {"sync_wait", "gather"} -> 1 + (gen[q] - 1) * ns + (kpos[q] - 1)
       [] pc[q] = "final" -> loop_end + (kpos[q] - 1) * (d + 2) + tree_level[q]
       [] pc[q] = "barrier" -> loop_end + ns * (d + 2)
       [] pc[q] = "done" -> loop_end + ns * (d + 2) + 1

LastPosition == 2 + gen_num_chunks * Len(index_order)
                  + Len(index_order) * (CeilLog2(num_nodes) + 2)

(* C19: when all processes see the same number of chunks and the same      *)
(* slots in the same order, a run whose configuration is accepted never    *)
(* deadlocks: as long as some process has not passed the final world       *)
(* barrier, some process can take a step; and every step takes one process *)
(* to a later blocking call and moves no other process, so that after a    *)
(* bounded number of steps every process has passed the final barrier.     *)
C19_NoDeadlock ==
  /\ [](ValidConfig => (AllDone \/ ENABLED HapodNext))
  /\ [][\E q \in ActiveProcs :
          /\ PositionOf(q)' > PositionOf(q)
          /\ PositionOf(q)' <= LastPosition
          /\ \A r \in ActiveProcs \ {q} : PositionOf(r)' = PositionOf(r)]_vars

C19_Witness ==
  /\ num_nodes = 2
  /\ gen_num_chunks = 2
  /\ AllDone
  /\ \A q \in ActiveProcs : PositionOf(q) = LastPosition
  /\ \A q \in ActiveProcs : \A k \in indices : sync_count[q][k] = 2
  /\ \A k \in indices : Len(tree_pod_log[<< 0, k % SizeProc >>][k]) = 1

(* ======================== claims on SpecTree =========================== *)
(* C11 (as stated): in the cross-node tree reduction a merge uses          *)
(* final_orth_tol exactly if it is the last merge, the one at the global   *)
(* root of the tree; the merges at lower levels use the regular tolerance. *)
C11_OnlyLastTreeMergeFinalTol ==
  \A q \in ActiveProcs : \A k \in indices :
    \A i \in 1 .. Len(tree_pod_log[q][k]) :
      LET e == tree_pod_log[q][k][i]
      IN e.tol = "final_orth_tol" <=> e.root_of_tree

(* ===================== claims on SpecCellModel ========================= *)
(* the steps of next_time_step so far: each starts at the time returned by *)
(* the step before (the first at 0), is min(dt, t_end - t) long, ends      *)
(* later than it starts and not on a tick after t_end; no step starts once *)
(* t_end has been reached                                                  *)
StepsWithinTEnd ==
  \A j \in 1 .. Len(cellmodel.returned) :
    LET e == cellmodel.returned[j]
    IN /\ e.from = (IF j = 1 THEN 0 ELSE cellmodel.returned[j - 1].t)
       /\ e.from < cellmodel.t_end
       /\ e.t - e.from = Min(cellmodel.dt, cellmodel.t_end - e.from)
       /\ e.t > e.from
       /\ e.t <= cellmodel.t_end

(* a call at a time that has reached t_end returns None and the time       *)
(* t_end, and runs no Newton solve                                         *)
NoneAtTEnd ==
  /\ cellmodel.solves = Len(cellmodel.returned)
  /\ cellmodel.current = None <=> cellmodel.nones > 0
  /\ cellmodel.nones > 0 =>
       /\ cellmodel.time = cellmodel.t_end
       /\ \/ cellmodel.returned = << >> /\ cellmodel.t_end = 0
          \/ /\ cellmodel.returned # << >>
             /\ cellmodel.returned[Len(cellmodel.returned)].t = cellmodel.t_end

(* C21 (as stated): fed with its own returned times from t = 0,            *)
(* next_time_step never passes t_end: every step is min(dt, t_end - t)     *)
(* long, every returned time is larger than the one before and at most     *)
(* t_end, the step that reaches t_end returns exactly t_end, and a call at *)
(* t_end returns None, the time t_end, and runs no Newton solve.           *)
C21_NeverPastTEnd ==
  /\ StepsWithinTEnd
  /\ NoneAtTEnd
  /\ \A j \in 1 .. Len(cellmodel.returned) :
       cellmodel.returned[j].t = cellmodel.t_end => cellmodel.returned[j].off = 0

(* C21 (amended): the same for dt > 0, with the step that reaches t_end    *)
(* returning t_end or, where the sum of the steps dt is rounded down, the  *)
(* double just below it (within 1e-14, never above t_end).                 *)
C21_NeverPastTEndUpToRounding ==
  cellmodel.dt > 0 =>
    /\ StepsWithinTEnd
    /\ NoneAtTEnd
    /\ \A j \in 1 .. Len(cellmodel.returned) :
         cellmodel.returned[j].t = cellmodel.t_end => cellmodel.returned[j].off <= 0

(* t_end = 0.10, dt = 0.01: the tenth step returns 0.09999999999999999,    *)
(* the next call returns None and 0.1                                      *)
C21_Witness ==
  /\ cellmodel.t_end = 10
  /\ cellmodel.dt = 1
  /\ Len(cellmodel.returned) = 10
  /\ cellmodel.returned[10] = [from |-> 9, t |-> 10, off |-> -1]
  /\ cellmodel.nones = 1
  /\ cellmodel.time = 10
  /\ cellmodel.solves = 10

(* both runs have come to their end: next_time_step has returned None and *)
(* the loop of _compute_solution has ended                                 *)
BothRunsEnded ==
  /\ cellmodel.t_end > 0
  /\ cellmodel.dt > 0
  /\ cellmodel.done
  /\ cellmodel.nones > 0

(* the times of the initial values and of the solutions returned by        *)
(* next_time_step                                                          *)
DriverTimes ==
  << [t |-> 0, off |-> 0] >> \o
  [j \in 1 .. Len(cellmodel.returned) |->
     [t |-> cellmodel.returned[j].t, off |-> cellmodel.returned[j].off]]

(* the two runs visit the same times and produce ceil(t_end/dt) + 1        *)
(* vectors, the initial values included                                    *)
SameTimesAndCount ==
  BothRunsEnded =>
    /\ cellmodel.U_all = DriverTimes
    /\ Len(cellmodel.U_all) = CeilDiv(cellmodel.t_end, cellmodel.dt) + 1
    /\ cellmodel.i = CeilDiv(cellmodel.t_end, cellmodel.dt)

(* C22 (as stated): for t_end > 0 and dt > 0, _compute_solution and the    *)
(* iteration of next_time_step until None visit the same times and produce *)
(* the same number of vectors, ceil(t_end/dt) + 1 with the initial values, *)
(* and this is the num_time_steps that the chunk-count helpers return.     *)
C22_SameRunAsHelpersCount ==
  /\ SameTimesAndCount
  /\ BothRunsEnded =>
       \A cs \in 1 .. MaxChunkSize :
         /\ solver_statistics(cellmodel.t_end, cellmodel.dt, cs).ok =>
              solver_statistics(cellmodel.t_end, cellmodel.dt, cs).num_time_steps
                = Len(cellmodel.U_all)
         /\ get_num_chunks_and_num_timesteps(cellmodel.t_end, cellmodel.dt, cs).ok =>
              get_num_chunks_and_num_timesteps(cellmodel.t_end, cellmodel.dt, cs).num_time_steps
                = Len(cellmodel.U_all)

(* ===================== claims on SpecOperators ========================= *)
SetStateReturned == opstate.pc = "run" /\ opstate.kind # "none"
(* the value requested for cache c (1 pfield, 2 ofield, 3 stokes, 4 mu);  *)
(* with two components nothing is requested for the stokes cache          *)
RequestedValue(c) ==
  IF c = 4 THEN opstate.call.mu
  ELSE IF c <= Len(opstate.call.dofs) THEN opstate.call.dofs[c]
  ELSE opstate.call.before[3]
CachedValue(c) ==
  << opstate.last_pfield_dofs, opstate.last_ofield_dofs,
     opstate.last_stokes_dofs, opstate.last_mu >>[c]
Differs(c) == RequestedValue(c) # opstate.call.before[c]

(* C24: after _set_state(dofs, mu) the four caches equal the requested    *)
(* values; _change_state was invoked iff a requested value differed from  *)
(* the cached one, and got exactly the differing values, None otherwise   *)
C24_CachesEqualRequested ==
  SetStateReturned =>
    /\ \A c \in 1 .. 4 : CachedValue(c) = RequestedValue(c)
    /\ opstate.call.called <=> \E c \in 1 .. 4 : Differs(c)
    /\ \A c \in 1 .. 4 :
         opstate.call.passed[c] = IF Differs(c) THEN RequestedValue(c) ELSE 0

(* C24 (amended): the same for the requested values that are not None; a  *)
(* request of None (mu = None, or a component that is None) leaves its    *)
(* cache as it was and counts as unchanged                                *)
C24_CachesEqualRequestedNotNone ==
  SetStateReturned =>
    /\ \A c \in 1 .. 4 :
         CachedValue(c) = IF RequestedValue(c) # 0 THEN RequestedValue(c)
                          ELSE opstate.call.before[c]
    /\ opstate.call.called <=> \E c \in 1 .. 4 : RequestedValue(c) # 0 /\ Differs(c)
    /\ \A c \in 1 .. 4 :
         opstate.call.passed[c] = IF Differs(c) THEN RequestedValue(c) ELSE 0

(* a Jacobian operator applied after another operator changed pfield and  *)
(* ofield but not stokes and mu: _change_state gets two values, two None  *)
C24_Witness ==
  /\ SetStateReturned
  /\ opstate.kind = "jacobian_apply"
  /\ opstate.call.mu # NoMu
  /\ Len(opstate.call.dofs) = 3 /\ opstate.call.dofs[3] # NoDofs
  /\ opstate.call.called
  /\ opstate.call.passed[1] = opstate.call.dofs[1]
  /\ opstate.call.passed[2] = opstate.call.dofs[2]
  /\ opstate.call.passed[3] = NoDofs /\ opstate.call.passed[4] = NoMu
  /\ opstate.last_pfield_dofs = opstate.call.dofs[1]
  /\ opstate.last_stokes_dofs = opstate.call.dofs[3]

(* C25: whenever the ofield operator is applied with parameter mu, the    *)
(* solver's ofield parameters were updated to mu (update_ofield_parameters *)
(* was called with mu after the last parameter change), and likewise for   *)
(* the pfield operator and update_pfield_parameters, although both record  *)
(* the parameter in the one solver._last_mu                                *)
C25_ParametersUpdatedToMu ==
  (SetStateReturned /\ opstate.kind = "apply" /\ opstate.call.mu # NoMu) =>
    /\ opstate.call.op = "ofield" => opstate.ofield_params = opstate.call.mu
    /\ opstate.call.op = "pfield" => opstate.pfield_params = opstate.call.mu

(* C26: whenever operator X evaluates _fixed_component_apply, the solver's *)
(* prepare_X_operator was called after the most recent change of the       *)
(* solver's pfield, ofield or stokes vector or parameters made by any of   *)
(* the operators, also when the preceding change was made by a different   *)
(* operator fixed to the same component values                             *)
C26_PreparedAfterLastChange ==
  (SetStateReturned /\ opstate.kind = "apply") => opstate.prepared[opstate.call.op]

(* the operator applied just before was another one, fixed to the same    *)
(* state, and this application still prepared its operator                *)
C26_Witness ==
  /\ SetStateReturned /\ opstate.kind = "apply"
  /\ opstate.call.mu # NoMu /\ opstate.call.mu = opstate.call.before[4]
  /\ opstate.call.before[1] # NoDofs
  /\ opstate.call.before[1] \div 10 # opstate.who
  /\ FixedType(opstate.call.before[1] \div 10) # opstate.call.op
  /\ FixedContent(opstate.call.before[1] \div 10) = FixedContent(opstate.who)
  /\ opstate.call.called
  /\ opstate.prepared[opstate.call.op]

JacobianApplied == SetStateReturned /\ opstate.kind = "jacobian_apply"
AppliedJacobian == opstate.jacs[opstate.who]
(* a change that invalidates the linearization of the operator was        *)
(* detected in the call: pfield or mu for pfield, ofield or mu for ofield *)
InvalidatingChangeDetected ==
  \/ opstate.call.mu # opstate.call.before[4]
  \/ opstate.call.op = "pfield" /\ opstate.call.dofs[1] # opstate.call.before[1]
  \/ opstate.call.op = "ofield" /\ opstate.call.dofs[2] # opstate.call.before[2]

(* C27: after _set_state_jacobian(dofs, mu, J), _last_jacobian_value is J; *)
(* _change_jacobian_state(J) was skipped only if J is the previously set   *)
(* value and no invalidating change was detected in the call; so when      *)
(* _fixed_component_jacobian_apply runs, the solver's Jacobian state was   *)
(* set from J after the last change of the operator's field or parameters  *)
C27_JacobianStateSetFromJ ==
  JacobianApplied =>
    /\ opstate.last_jacobian_value[opstate.call.op] = AppliedJacobian.jacobian_value
    /\ opstate.call.op # "stokes" =>
         /\ ~opstate.jac_called =>
              /\ opstate.jac_before = AppliedJacobian.jacobian_value
              /\ ~InvalidatingChangeDetected
         /\ opstate.jac_state[opstate.call.op] = AppliedJacobian.jacobian_value
         /\ opstate.jac_fresh[opstate.call.op]

(* a pfield or ofield Jacobian applied twice in a row: the second call    *)
(* skips _change_jacobian_state and the state set by the first is current *)
C27_Witness ==
  /\ JacobianApplied
  /\ opstate.call.op # "stokes"
  /\ ~opstate.jac_called
  /\ ~opstate.call.called
  /\ opstate.jac_before = AppliedJacobian.jacobian_value
  /\ opstate.jac_state[opstate.call.op] = AppliedJacobian.jacobian_value

(* ======================== claims on SpecRhs ============================ *)
(* C28: after set_rhs_operator_params(mu) returns the solver's RHS         *)
(* operator parameters equal mu, and after set_rhs_timestepper_params(mu)  *)
(* returns its RHS time stepper parameters equal mu, although both skip    *)
(* the update when mu equals the one shared last_mu                        *)
C28_RhsParametersEqualMu ==
  /\ boltz.pc = "run" /\ boltz.call.method \in {"set_rhs_operator_params", "apply"}
       => boltz.rhs_operator_parameters = boltz.call.mu
  /\ boltz.pc = "run" /\ boltz.call.method = "set_rhs_timestepper_params"
       => boltz.rhs_timestepper_parameters = boltz.call.mu

(* ======================= claims on SpecScatter ========================= *)
(* C29: for every communicator size n >= 1 the function builds exactly n  *)
(* parameter combinations (the uniform grid never has more than n points, *)
(* random ones are added until there are n), so that the scatter hands    *)
(* exactly one combination to every rank                                  *)
C29_ExactlyOnePerRank ==
  scatter.pc = "run" =>
    \A r \in CommRanks :
      /\ scatter.rpc[r] # "call" => Len(scatter.plist[r]) = scatter.size
      /\ scatter.rpc[r] # "error"
      /\ scatter.rpc[r] = "done" => scatter.got[r] = scatter.plist[0][r + 1]

====
